---- MODULE Spec2Model ----
(***************************************************************************)
(* Model of the position-list parser of cutr (src/cutr/src/main.rs).       *)
(*                                                                         *)
(* A string is a sequence of characters; a character is a one-element      *)
(* TLA+ string.  NonAsciiDigit stands for a decimal digit outside ASCII    *)
(* (U+0663 ARABIC-INDIC DIGIT THREE): the regex class \d of the regex      *)
(* crate is Unicode aware and matches it, while the integer parser of the  *)
(* standard library accepts ASCII digits only.                             *)
(*                                                                         *)
(* usize is modelled UsizeBits wide, so that numbers too large for usize   *)
(* can be written within MaxLen characters.                                *)
(***************************************************************************)
EXTENDS Integers, Sequences, FiniteSets, TLC

VARIABLES position_text, pc, result, first

(* One call of an extract function: its position list, its record or line, *)
(* the elements it selected and what it returned.                          *)
VARIABLES xpc, position_list, input, selected, output

(* One run of do_run: its arguments, where it stands, the selection mode,  *)
(* the file and the print function at work, what it returned, what it      *)
(* wrote, and what the environment did: the opens attempted, the lines or  *)
(* records read of each opened file, the failure of a read or a write.     *)
VARIABLES args, rpc, selection_mode, file_index, printing, ret, stdout, stderr,
          opened, lines_read, io_error

pvars == <<position_text, pc, result, first>>

xvars == <<xpc, position_list, input, selected, output>>

rvars == <<args, rpc, selection_mode, file_index, printing, ret, stdout, stderr,
           opened, lines_read, io_error>>

(* One run of uniqr's do_run: the --count flag, the lines of the input     *)
(* file, how many of them were read, the buffer of the previous line, the  *)
(* count of the run at hand, the text written and what do_run returned.    *)
VARIABLES uniq_count, uniq_input, uniq_read, previous_line, duplicate_count,
          uniq_output, uniq_ret, upc

(* One call of grepr's find_lines: the lines the file handle yields and    *)
(* whether the read after them fails, the pattern, the flag, the result,   *)
(* and the result of the call before it.                                   *)
VARIABLES grep_input, grep_pattern, invert_match, grep_matches, grep_previous, gpc

(* One call of wcr's get_file_info: the characters of the input, how many  *)
(* of them were read, the four counters, and what the call returned.       *)
VARIABLES wc_input, wc_read, line_count, word_count, byte_count, char_count,
          wc_ret, wpc

(* One run of headr's run: its arguments, the file system (whether each    *)
(* file opens, and its lines), the index of the file at work, the lines    *)
(* read of it, the writes to stdout (each with the index of its file and   *)
(* whether it is a header), the files reported on stderr, and what run     *)
(* returned.                                                               *)
VARIABLES head_args, head_fs, head_file_index, head_lines_read, head_stdout,
          head_stderr, head_ret, hpc

(* One run of commr's do_run: its arguments, the lines the two iterators   *)
(* yield, how many each has yielded, the two current lines, the rows       *)
(* written (each with its column and the line it shows), what do_run       *)
(* returned.                                                               *)
VARIABLES comm_args, comm_files, comm_taken, line1, line2, comm_stdout,
          comm_ret, cpc

cutrvars == <<pvars, xvars, rvars>>

cvars == <<comm_args, comm_files, comm_taken, line1, line2, comm_stdout,
           comm_ret, cpc>>

hvars == <<head_args, head_fs, head_file_index, head_lines_read, head_stdout,
           head_stderr, head_ret, hpc>>

wvars == <<wc_input, wc_read, line_count, word_count, byte_count, char_count,
           wc_ret, wpc>>

gvars == <<grep_input, grep_pattern, invert_match, grep_matches, grep_previous, gpc>>

uvars == <<uniq_count, uniq_input, uniq_read, previous_line, duplicate_count,
           uniq_output, uniq_ret, upc>>

(* The variables of the other programs of the repository. *)
toolvars == <<uvars, gvars, wvars, hvars, cvars>>

(* For each program, the variables of all the others. *)
rest_of_uniqr == <<cutrvars, gvars, wvars, hvars, cvars>>

rest_of_grepr == <<cutrvars, uvars, wvars, hvars, cvars>>

rest_of_wcr == <<cutrvars, uvars, gvars, hvars, cvars>>

rest_of_headr == <<cutrvars, uvars, gvars, wvars, cvars>>

rest_of_commr == <<cutrvars, uvars, gvars, wvars, hvars>>

vars == <<cutrvars, toolvars>>

-----------------------------------------------------------------------------
(* Bounds *)

MaxLen == 5

MaxPad == 2

UsizeBits == 4

MaxEnd == 4

MaxRanges == 2

MaxLineChars == 2

MaxFields == 3

MaxFiles == 2

MaxLines == 2

MaxUniqLines == 3

MaxGrepLines == 3

MaxWcChars == 4

MaxHeadFiles == 2

MaxHeadLines == 2

MaxCommLines == 2

-----------------------------------------------------------------------------
(* Characters and integers *)

AsciiDigits == <<"0", "1", "2", "3", "4", "5", "6", "7", "8", "9">>

AsciiDigitSet == {AsciiDigits[i] : i \in 1..10}

NonAsciiDigit == "U+0663"

InputChars == {"0", "1", "5", "a", "+", "-", ",", NonAsciiDigit}

UsizeModulus == 2 ^ UsizeBits

UsizeMax == UsizeModulus - 1

DigitValue(c) == CHOOSE d \in 0..9 : AsciiDigits[d + 1] = c

(* usize addition; the sum wraps at the width of usize. *)
WrappingAdd(a, b) == (a + b) % UsizeModulus

Ok(v) == [ok |-> TRUE, value |-> v]

Err(msg) == [ok |-> FALSE, error |-> msg]

Range(s, e) == [start |-> s, end |-> e]

-----------------------------------------------------------------------------
(* usize -> decimal text, as the {} formatter renders it *)

RECURSIVE to_string(_)
to_string(n) ==
    IF n < 10 THEN <<AsciiDigits[n + 1]>>
    ELSE to_string(n \div 10) \o <<AsciiDigits[(n % 10) + 1]>>

IllegalListValue(text) == <<"illegal list value: \"">> \o text \o <<"\"">>

RangeOrderMessage(low, high) ==
    <<"First number in range (">> \o to_string(low)
        \o <<") must be lower than second number (">> \o to_string(high)
        \o <<")">>

-----------------------------------------------------------------------------
(* str::parse::<NonZeroUsize>: radix-10 parse with checked arithmetic *)

RECURSIVE from_str_radix_digits(_, _)
from_str_radix_digits(digits, acc) ==
    IF digits = <<>> THEN Ok(acc)
    ELSE IF Head(digits) \notin AsciiDigitSet THEN Err("InvalidDigit")
    ELSE LET mul == acc * 10
             add == mul + DigitValue(Head(digits))
         IN  IF mul > UsizeMax \/ add > UsizeMax THEN Err("PosOverflow")
             ELSE from_str_radix_digits(Tail(digits), add)

parse_NonZeroUsize(src) ==
    IF src = <<>> THEN Err("Empty")
    ELSE IF src = <<"+">> \/ src = <<"-">> THEN Err("InvalidDigit")
    ELSE LET digits == IF Head(src) = "+" THEN Tail(src) ELSE src
             r == from_str_radix_digits(digits, 0)
         IN  IF ~r.ok THEN r
             ELSE IF r.value = 0 THEN Err("Zero")
             ELSE r

(* Variant: the parsed number is returned without the decrement. *)
parse_index_no_decrement(index_text) ==
    IF index_text # <<>> /\ Head(index_text) = "+"
    THEN Err(IllegalListValue(index_text))
    ELSE LET parsed == parse_NonZeroUsize(index_text)
         IN  IF parsed.ok THEN Ok(parsed.value)
             ELSE Err(IllegalListValue(index_text))

parse_index(index_text) ==
    IF index_text # <<>> /\ Head(index_text) = "+"
    THEN Err(IllegalListValue(index_text))
    ELSE LET parsed == parse_NonZeroUsize(index_text)
         IN  IF parsed.ok THEN Ok(parsed.value - 1)
             ELSE Err(IllegalListValue(index_text))

-----------------------------------------------------------------------------
(* The two regular expressions *)

IsRegexDigit(c) == c \in AsciiDigitSet \cup {NonAsciiDigit}

AllRegexDigits(s) == Len(s) > 0 /\ \A i \in 1..Len(s) : IsRegexDigit(s[i])

(* Variant: the first digit must be 1-9, a leading zero does not match. *)
single_digit_regex_no_leading_zero(value) ==
    AllRegexDigits(value) /\ value[1] # "0"

single_digit_regex(value) == AllRegexDigits(value)

range_regex_hyphen(value) ==
    {i \in 1..Len(value) :
        /\ value[i] = "-"
        /\ AllRegexDigits(SubSeq(value, 1, i - 1))
        /\ AllRegexDigits(SubSeq(value, i + 1, Len(value)))}

range_regex(value) == range_regex_hyphen(value) # {}

range_regex_captures(value) ==
    LET i == CHOOSE i \in range_regex_hyphen(value) : TRUE
    IN  <<SubSeq(value, 1, i - 1), SubSeq(value, i + 1, Len(value))>>

-----------------------------------------------------------------------------
(* Parsing one token, and the list *)

(* Variant: the range n..n, its end not advanced. *)
parse_single_digit_position_end_not_advanced(value) ==
    IF AllRegexDigits(value)
    THEN LET n == parse_index(value)
         IN  IF n.ok THEN Ok(Range(n.value, n.value)) ELSE n
    ELSE Err(IllegalListValue(value))

parse_single_digit_position(value) ==
    IF single_digit_regex(value)
    THEN LET n == parse_index(value)
         IN  IF n.ok THEN Ok(Range(n.value, WrappingAdd(n.value, 1))) ELSE n
    ELSE Err(IllegalListValue(value))

(* Variant: the range n1..n2, its upper bound excluded. *)
parse_hyphenated_position_exclusive_end(value) ==
    IF range_regex(value)
    THEN LET captures == range_regex_captures(value)
             n1 == parse_index(captures[1])
             n2 == parse_index(captures[2])
         IN  IF ~n1.ok THEN n1
             ELSE IF ~n2.ok THEN n2
             ELSE IF n1.value >= n2.value
                  THEN Err(RangeOrderMessage(WrappingAdd(n1.value, 1),
                                             WrappingAdd(n2.value, 1)))
             ELSE Ok(Range(n1.value, n2.value))
    ELSE Err(IllegalListValue(value))

(* Variant: the message reports the zero-based bounds. *)
parse_hyphenated_position_zero_based_message(value) ==
    IF range_regex(value)
    THEN LET captures == range_regex_captures(value)
             n1 == parse_index(captures[1])
             n2 == parse_index(captures[2])
         IN  IF ~n1.ok THEN n1
             ELSE IF ~n2.ok THEN n2
             ELSE IF n1.value >= n2.value
                  THEN Err(RangeOrderMessage(n1.value, n2.value))
             ELSE Ok(Range(n1.value, WrappingAdd(n2.value, 1)))
    ELSE Err(IllegalListValue(value))

(* Variant: a bound that fails to parse is reported as the whole token. *)
parse_hyphenated_position_whole_token(value) ==
    IF range_regex(value)
    THEN LET captures == range_regex_captures(value)
             n1 == parse_index(captures[1])
             n2 == parse_index(captures[2])
         IN  IF ~n1.ok \/ ~n2.ok THEN Err(IllegalListValue(value))
             ELSE IF n1.value >= n2.value
                  THEN Err(RangeOrderMessage(WrappingAdd(n1.value, 1),
                                             WrappingAdd(n2.value, 1)))
             ELSE Ok(Range(n1.value, WrappingAdd(n2.value, 1)))
    ELSE Err(IllegalListValue(value))

(* Variant: the order of the bounds is not checked. *)
parse_hyphenated_position_unchecked(value) ==
    IF range_regex(value)
    THEN LET captures == range_regex_captures(value)
             n1 == parse_index(captures[1])
             n2 == parse_index(captures[2])
         IN  IF ~n1.ok THEN n1
             ELSE IF ~n2.ok THEN n2
             ELSE Ok(Range(n1.value, WrappingAdd(n2.value, 1)))
    ELSE Err(IllegalListValue(value))

parse_hyphenated_position(value) ==
    IF range_regex(value)
    THEN LET captures == range_regex_captures(value)
             n1 == parse_index(captures[1])
             n2 == parse_index(captures[2])
         IN  IF ~n1.ok THEN n1
             ELSE IF ~n2.ok THEN n2
             ELSE IF n1.value >= n2.value
                  THEN Err(RangeOrderMessage(WrappingAdd(n1.value, 1),
                                             WrappingAdd(n2.value, 1)))
             ELSE Ok(Range(n1.value, WrappingAdd(n2.value, 1)))
    ELSE Err(IllegalListValue(value))

parse_position_entry(value) ==
    LET single == parse_single_digit_position(value)
    IN  IF single.ok THEN single ELSE parse_hyphenated_position(value)

RECURSIVE split(_, _)
split(text, sep) ==
    IF \E i \in 1..Len(text) : text[i] = sep
    THEN LET i == CHOOSE i \in 1..Len(text) :
                      text[i] = sep /\ \A j \in 1..(i - 1) : text[j] # sep
         IN  <<SubSeq(text, 1, i - 1)>> \o split(SubSeq(text, i + 1, Len(text)), sep)
    ELSE <<text>>

(* Variant: every entry is parsed and the last error is the result. *)
RECURSIVE collect_keep_going(_, _)
collect_keep_going(entries, acc) ==
    IF entries = <<>> THEN Ok(acc)
    ELSE LET r == parse_position_entry(Head(entries))
             rest == collect_keep_going(Tail(entries),
                                        IF r.ok THEN Append(acc, r.value) ELSE acc)
         IN  IF r.ok \/ ~rest.ok THEN rest ELSE r

(* Variant: each range is put in front of the ranges collected so far. *)
RECURSIVE collect_prepend(_, _)
collect_prepend(entries, acc) ==
    IF entries = <<>> THEN Ok(acc)
    ELSE LET r == parse_position_entry(Head(entries))
         IN  IF r.ok THEN collect_prepend(Tail(entries), <<r.value>> \o acc) ELSE r

RECURSIVE collect(_, _)
collect(entries, acc) ==
    IF entries = <<>> THEN Ok(acc)
    ELSE LET r == parse_position_entry(Head(entries))
         IN  IF r.ok THEN collect(Tail(entries), Append(acc, r.value)) ELSE r

parse_position(text) == collect(split(text, ","), <<>>)

-----------------------------------------------------------------------------
(* State machine: parse a specification text, then parse it again after     *)
(* rendering its ranges in one-based form, or after zero-padding a number.  *)

PositionTexts == UNION {[1..n -> InputChars] : n \in 0..MaxLen}

None == [ok |-> FALSE, error |-> <<"none">>]

Returned(v) == [returned |-> TRUE, value |-> v]

Panicked == [returned |-> FALSE]

ParseIdle ==
    /\ position_text = <<>>
    /\ pc = "start"
    /\ result = None
    /\ first = None

ExtractIdle ==
    /\ xpc = "ready"
    /\ position_list = <<>>
    /\ input = <<>>
    /\ selected = <<>>
    /\ output = Returned(<<>>)

NoMode == [tag |-> "none", position_list |-> <<>>]

RunIdle ==
    /\ args = <<>>
    /\ rpc = "idle"
    /\ selection_mode = NoMode
    /\ file_index = 0
    /\ printing = "none"
    /\ ret = None
    /\ stdout = <<>>
    /\ stderr = <<>>
    /\ opened = <<>>
    /\ lines_read = <<>>
    /\ io_error = "none"

UniqIdle ==
    /\ uniq_count = FALSE
    /\ uniq_input = <<>>
    /\ uniq_read = 0
    /\ previous_line = <<>>
    /\ duplicate_count = 0
    /\ uniq_output = <<>>
    /\ uniq_ret = None
    /\ upc = "idle"

CutrIdle == ParseIdle /\ ExtractIdle /\ RunIdle

GrepIdle ==
    /\ grep_input = <<>>
    /\ grep_pattern = <<>>
    /\ invert_match = FALSE
    /\ grep_matches = None
    /\ grep_previous = None
    /\ gpc = "idle"

WcIdle ==
    /\ wc_input = <<>>
    /\ wc_read = 0
    /\ line_count = 0
    /\ word_count = 0
    /\ byte_count = 0
    /\ char_count = 0
    /\ wc_ret = None
    /\ wpc = "idle"

HeadIdle ==
    /\ head_args = <<>>
    /\ head_fs = <<>>
    /\ head_file_index = 0
    /\ head_lines_read = 0
    /\ head_stdout = <<>>
    /\ head_stderr = <<>>
    /\ head_ret = None
    /\ hpc = "idle"

CommIdle ==
    /\ comm_args = <<>>
    /\ comm_files = <<>>
    /\ comm_taken = <<0, 0>>
    /\ line1 = <<>>
    /\ line2 = <<>>
    /\ comm_stdout = <<>>
    /\ comm_ret = None
    /\ cpc = "idle"

(* Every program of the repository but the one named is idle. *)
ToolsIdleExcept(tool) ==
    /\ tool # "uniqr" => UniqIdle
    /\ tool # "grepr" => GrepIdle
    /\ tool # "wcr" => WcIdle
    /\ tool # "headr" => HeadIdle
    /\ tool # "commr" => CommIdle

ToolsIdle == ToolsIdleExcept("cutr")

Init ==
    /\ position_text \in PositionTexts
    /\ pc = "start"
    /\ result = None
    /\ first = None
    /\ ExtractIdle
    /\ RunIdle
    /\ ToolsIdle

ParsePosition ==
    /\ pc = "start"
    /\ result' = parse_position(position_text)
    /\ pc' = "parsed"
    /\ UNCHANGED <<position_text, first>>
    /\ UNCHANGED <<xvars, rvars, toolvars>>

(* One-based rendering of a list of ranges: start+1 for a range of width 1, *)
(* start+1-end otherwise, joined with commas.                              *)
RenderRange(r) ==
    IF r.end = r.start + 1 THEN to_string(r.start + 1)
    ELSE to_string(r.start + 1) \o <<"-">> \o to_string(r.end)

RECURSIVE RenderList(_)
RenderList(ranges) ==
    IF Len(ranges) = 1 THEN RenderRange(ranges[1])
    ELSE RenderRange(Head(ranges)) \o <<",">> \o RenderList(Tail(ranges))

Reparse ==
    /\ pc = "parsed"
    /\ result.ok
    /\ position_text' = RenderList(result.value)
    /\ result' = parse_position(position_text')
    /\ first' = result
    /\ pc' = "reparsed"
    /\ UNCHANGED <<xvars, rvars, toolvars>>

(* The places of a text where a number begins, and k zeros put before one. *)
NumberStarts(text) ==
    {p \in 1..Len(text) :
        text[p] \in AsciiDigitSet /\ (p = 1 \/ text[p - 1] \notin AsciiDigitSet)}

InsertZeros(text, p, k) ==
    SubSeq(text, 1, p - 1) \o [i \in 1..k |-> "0"] \o SubSeq(text, p, Len(text))

PadZero ==
    /\ pc = "parsed"
    /\ result.ok
    /\ \E p \in NumberStarts(position_text), k \in 1..MaxPad :
           position_text' = InsertZeros(position_text, p, k)
    /\ result' = parse_position(position_text')
    /\ first' = result
    /\ pc' = "padded"
    /\ UNCHANGED <<xvars, rvars, toolvars>>

Next == ParsePosition \/ Reparse \/ PadZero

SpecParse == Init /\ [][Next]_vars

Spec == SpecParse

-----------------------------------------------------------------------------
(* The grammar of the specification text, stated on its own:               *)
(* TOKEN = DIGITS | DIGITS-DIGITS, DIGITS = [0-9]+, numbers unbounded.     *)

IsDigits(s) == Len(s) > 0 /\ \A i \in 1..Len(s) : s[i] \in AsciiDigitSet

RECURSIVE NatValue(_)
NatValue(s) ==
    IF s = <<>> THEN 0
    ELSE NatValue(SubSeq(s, 1, Len(s) - 1)) * 10 + DigitValue(s[Len(s)])

HyphenAt(s) == {i \in 1..Len(s) : s[i] = "-"}

TheHyphen(s) == CHOOSE i \in HyphenAt(s) : TRUE

LowText(s) == SubSeq(s, 1, TheHyphen(s) - 1)

HighText(s) == SubSeq(s, TheHyphen(s) + 1, Len(s))

IsRangeToken(s) ==
    /\ Cardinality(HyphenAt(s)) = 1
    /\ IsDigits(LowText(s))
    /\ IsDigits(HighText(s))

Low(s) == NatValue(LowText(s))

High(s) == NatValue(HighText(s))

IsSingleToken(text) == \A i \in 1..Len(text) : text[i] # ","

Parsed == pc # "start"

-----------------------------------------------------------------------------
(* C1 as claimed: every token of decimal digits of value n >= 1 parses to  *)
(* exactly the one range [n-1, n).                                         *)
C1_AnyIndexParses ==
    (Parsed /\ IsDigits(position_text) /\ NatValue(position_text) >= 1)
        => result = Ok(<<Range(NatValue(position_text) - 1, NatValue(position_text))>>)

(* C1 amended: every token of decimal digits whose value n satisfies       *)
(* 1 <= n <= usize::MAX parses to exactly the one range [n-1, n).          *)
C1_IndexWithinUsizeParses ==
    (Parsed /\ IsDigits(position_text) /\ NatValue(position_text) \in 1..UsizeMax)
        => result = Ok(<<Range(NatValue(position_text) - 1, NatValue(position_text))>>)

C1_Witness ==
    /\ pc = "parsed"
    /\ position_text = <<"0", "1", "5">>
    /\ NatValue(position_text) = UsizeMax
    /\ result = Ok(<<Range(14, 15)>>)

(* C2 as claimed: every token n1-n2 with 1 <= n1 < n2 parses to exactly    *)
(* the one range [n1-1, n2).                                               *)
C2_AnyRangeParses ==
    (/\ Parsed
     /\ IsRangeToken(position_text)
     /\ 1 <= Low(position_text)
     /\ Low(position_text) < High(position_text))
        => result = Ok(<<Range(Low(position_text) - 1, High(position_text))>>)

(* C2 amended: every token n1-n2 with 1 <= n1 < n2 <= usize::MAX parses    *)
(* to exactly the one range [n1-1, n2), of width n2-n1+1.                  *)
C2_RangeWithinUsizeParses ==
    (/\ Parsed
     /\ IsRangeToken(position_text)
     /\ 1 <= Low(position_text)
     /\ Low(position_text) < High(position_text)
     /\ High(position_text) <= UsizeMax)
        => /\ result = Ok(<<Range(Low(position_text) - 1, High(position_text))>>)
           /\ result.value[1].end - result.value[1].start
                  = High(position_text) - Low(position_text) + 1

C2_Witness ==
    /\ pc = "parsed"
    /\ position_text = <<"5", "-", "1", "5">>
    /\ result = Ok(<<Range(4, 15)>>)

(* C3 as claimed: every token n1-n2 with both bounds non-zero and          *)
(* n1 >= n2 fails with the range-order message naming n1 and n2.           *)
C3_AnyMisorderedRangeReported ==
    (/\ Parsed
     /\ IsRangeToken(position_text)
     /\ High(position_text) >= 1
     /\ Low(position_text) >= High(position_text))
        => result = Err(RangeOrderMessage(Low(position_text), High(position_text)))

(* C3 amended: every token n1-n2 with both bounds in 1..usize::MAX and     *)
(* n1 >= n2 fails with the range-order message naming the one-based n1     *)
(* and n2 in that order.                                                   *)
C3_MisorderedRangeWithinUsizeReported ==
    (/\ Parsed
     /\ IsRangeToken(position_text)
     /\ High(position_text) >= 1
     /\ Low(position_text) >= High(position_text)
     /\ Low(position_text) <= UsizeMax)
        => result = Err(RangeOrderMessage(Low(position_text), High(position_text)))

C3_Witness ==
    /\ pc = "parsed"
    /\ position_text = <<"1", "5", "-", "0", "5">>
    /\ result = Err(<<"First number in range (", "1", "5",
                      ") must be lower than second number (", "5", ")">>)

(* C4: every token matching neither DIGITS nor DIGITS-DIGITS fails with    *)
(* the illegal-value message quoting the entire token.                     *)
C4_NonGrammarTokenEchoed ==
    (/\ Parsed
     /\ IsSingleToken(position_text)
     /\ ~IsDigits(position_text)
     /\ ~IsRangeToken(position_text))
        => result = Err(IllegalListValue(position_text))

(* C4, supplement: the same holds of the code for every token that has no   *)
(* digit outside ASCII.                                                    *)
C4_AsciiNonGrammarTokenEchoed ==
    (/\ Parsed
     /\ IsSingleToken(position_text)
     /\ \A i \in 1..Len(position_text) : position_text[i] # NonAsciiDigit
     /\ ~IsDigits(position_text)
     /\ ~IsRangeToken(position_text))
        => result = Err(IllegalListValue(position_text))

(* C5 as claimed: a zero index, or a zero on either side of a range, fails *)
(* with the illegal-value message quoting a zero operand as written.       *)
ZeroOperands(s) ==
    IF IsDigits(s) THEN {t \in {s} : NatValue(t) = 0}
    ELSE {t \in {LowText(s), HighText(s)} : NatValue(t) = 0}

C5_ZeroOperandEchoed ==
    (/\ Parsed
     /\ IsDigits(position_text) \/ IsRangeToken(position_text)
     /\ ZeroOperands(position_text) # {})
        => \E z \in ZeroOperands(position_text) : result = Err(IllegalListValue(z))

(* C5 amended: a zero index, or a zero on either side of a range, always   *)
(* fails with the illegal-value message, never the range-order one; the    *)
(* quoted text is the zero operand as written, except that a first bound   *)
(* above usize::MAX is quoted instead of a zero second bound.              *)
C5_ZeroRejected ==
    (/\ Parsed
     /\ IsDigits(position_text) \/ IsRangeToken(position_text)
     /\ ZeroOperands(position_text) # {})
        => IF IsDigits(position_text)
           THEN result = Err(IllegalListValue(position_text))
           ELSE IF Low(position_text) = 0 \/ Low(position_text) > UsizeMax
           THEN result = Err(IllegalListValue(LowText(position_text)))
           ELSE result = Err(IllegalListValue(HighText(position_text)))

C5_Witness ==
    /\ pc = "parsed"
    /\ position_text = <<"5", "-", "0", "0">>
    /\ result = Err(<<"illegal list value: \"", "0", "0", "\"">>)

-----------------------------------------------------------------------------
(* The tokens of a text, counted by its commas, and what each stands for.  *)

CommasUpTo(text, i) == Cardinality({k \in 1..i : text[k] = ","})

TokenCount(text) == CommasUpTo(text, Len(text)) + 1

NthComma(text, n) ==
    IF n = 0 THEN 0
    ELSE IF n = TokenCount(text) THEN Len(text) + 1
    ELSE CHOOSE i \in 1..Len(text) : text[i] = "," /\ CommasUpTo(text, i) = n

TokenAt(text, j) ==
    SubSeq(text, NthComma(text, j - 1) + 1, NthComma(text, j) - 1)

ValidToken(t) ==
    \/ IsDigits(t) /\ NatValue(t) \in 1..UsizeMax
    \/ IsRangeToken(t) /\ 1 <= Low(t) /\ Low(t) < High(t) /\ High(t) <= UsizeMax

ExpectedRange(t) ==
    IF IsDigits(t) THEN Range(NatValue(t) - 1, NatValue(t))
    ELSE Range(Low(t) - 1, High(t))

InvalidTokens(text) ==
    {j \in 1..TokenCount(text) : ~ValidToken(TokenAt(text, j))}

LeftmostInvalid(text) ==
    CHOOSE j \in InvalidTokens(text) : \A k \in InvalidTokens(text) : j <= k

(* C6: fail-fast.  When a list holds invalid tokens, the result is the     *)
(* error the leftmost invalid token gives alone, whatever follows it, and  *)
(* it carries no range.                                                    *)
C6_LeftmostErrorReturned ==
    (Parsed /\ InvalidTokens(position_text) # {})
        => /\ ~result.ok
           /\ result = parse_position(TokenAt(position_text, LeftmostInvalid(position_text)))
           /\ DOMAIN result = {"ok", "error"}

C6_Witness ==
    /\ pc = "parsed"
    /\ position_text = <<"1", ",", "0", ",", "a">>
    /\ result = Err(<<"illegal list value: \"", "0", "\"">>)

(* C7: a list of k valid tokens parses to exactly k ranges, the i-th being *)
(* the range of the i-th token: not sorted, not merged, not de-duplicated. *)
C7_OrderAndCountPreserved ==
    (Parsed /\ InvalidTokens(position_text) = {})
        => result = Ok([j \in 1..TokenCount(position_text)
                            |-> ExpectedRange(TokenAt(position_text, j))])

C7_Witness ==
    /\ pc = "parsed"
    /\ position_text = <<"5", ",", "1", ",", "1">>
    /\ result = Ok(<<Range(4, 5), Range(0, 1), Range(0, 1)>>)

(* C8: every range of every successfully parsed list has                   *)
(* 0 <= start < end.                                                       *)
C8_RangesNonEmpty ==
    (Parsed /\ result.ok)
        => \A i \in 1..Len(result.value) :
               0 <= result.value[i].start /\ result.value[i].start < result.value[i].end

C8_Witness ==
    /\ pc = "parsed"
    /\ position_text = <<"1", "-", "1", "5">>
    /\ result = Ok(<<Range(0, UsizeMax)>>)

(* C9: putting zeros before any number of a valid specification leaves     *)
(* the parsed list of ranges unchanged.                                    *)
C9_LeadingZerosInsignificant == pc = "padded" => (first.ok /\ result = first)

C9_Witness ==
    /\ pc = "padded"
    /\ position_text = <<"1", "-", "0", "0", "5", ",", "1">>
    /\ first = Ok(<<Range(0, 5), Range(0, 1)>>)
    /\ result = first

(* C10: parsing the one-based rendering of a successfully parsed list      *)
(* returns that list again.                                                *)
C10_RenderParseRoundTrip == pc = "reparsed" => (first.ok /\ result = first)

C10_Witness ==
    /\ pc = "reparsed"
    /\ position_text = <<"1", "-", "5", ",", "1">>
    /\ first = Ok(<<Range(0, 5), Range(0, 1)>>)
    /\ result = first

-----------------------------------------------------------------------------
(* The extract functions.  A String, a &str and a field are sequences of   *)
(* bytes holding UTF-8; a char is a code point.                            *)

RECURSIVE concat(_)
concat(seqs) == IF seqs = <<>> THEN <<>> ELSE Head(seqs) \o concat(Tail(seqs))

(* slice::get, StringRecord::get: Some(element) or None, as a sequence of  *)
(* one element or none.  Indices are zero-based.                           *)
get(seq, i) == IF i < Len(seq) THEN <<seq[i + 1]>> ELSE <<>>

(* (start..end).filter_map(|i| seq.get(i)) *)
RECURSIVE range_filter_map_get(_, _, _)
range_filter_map_get(start, end, seq) ==
    IF start >= end THEN <<>>
    ELSE get(seq, start) \o range_filter_map_get(start + 1, end, seq)

(* position_list.iter().cloned().flat_map(|range| range.filter_map(...)) *)
RECURSIVE flat_map_ranges(_, _)
flat_map_ranges(ranges, seq) ==
    IF ranges = <<>> THEN <<>>
    ELSE range_filter_map_get(Head(ranges).start, Head(ranges).end, seq)
             \o flat_map_ranges(Tail(ranges), seq)

(* Variant: the selected fields come out in record order, each once. *)
extract_fields_from_record_in_record_order(record, ranges) ==
    LET covered(i) == \E k \in 1..Len(ranges) :
                          ranges[k].start <= i /\ i < ranges[k].end
        in_order[i \in 0..Len(record)] ==
            IF i = 0 THEN <<>>
            ELSE in_order[i - 1] \o (IF covered(i - 1) THEN <<record[i]>> ELSE <<>>)
    IN  Returned(in_order[Len(record)])

extract_fields_from_record(record, ranges) ==
    Returned(flat_map_ranges(ranges, record))

(* core::str::utf8_char_width *)
utf8_char_width(b) ==
    IF b < 128 THEN 1
    ELSE IF b < 194 THEN 0
    ELSE IF b < 224 THEN 2
    ELSE IF b < 240 THEN 3
    ELSE IF b < 245 THEN 4
    ELSE 0

is_continuation(b) == b \in 128..191

safe_get(bytes, i) == IF i <= Len(bytes) THEN bytes[i] ELSE 0

(* One step of Utf8Chunks at the byte in place i (one-based): whether a    *)
(* well-formed sequence starts there, and the place after the bytes taken. *)
utf8_chunk_step(bytes, i) ==
    LET byte == bytes[i]
        b1 == safe_get(bytes, i + 1)
        b2 == safe_get(bytes, i + 2)
        b3 == safe_get(bytes, i + 3)
        w == utf8_char_width(byte)
        second_of_3 ==
            \/ byte = 224 /\ b1 \in 160..191
            \/ byte \in 225..236 /\ b1 \in 128..191
            \/ byte = 237 /\ b1 \in 128..159
            \/ byte \in 238..239 /\ b1 \in 128..191
        second_of_4 ==
            \/ byte = 240 /\ b1 \in 144..191
            \/ byte \in 241..243 /\ b1 \in 128..191
            \/ byte = 244 /\ b1 \in 128..143
    IN  IF byte < 128 THEN [valid |-> TRUE, next |-> i + 1]
        ELSE IF w = 2
        THEN IF ~is_continuation(b1) THEN [valid |-> FALSE, next |-> i + 1]
             ELSE [valid |-> TRUE, next |-> i + 2]
        ELSE IF w = 3
        THEN IF ~second_of_3 THEN [valid |-> FALSE, next |-> i + 1]
             ELSE IF ~is_continuation(b2) THEN [valid |-> FALSE, next |-> i + 2]
             ELSE [valid |-> TRUE, next |-> i + 3]
        ELSE IF w = 4
        THEN IF ~second_of_4 THEN [valid |-> FALSE, next |-> i + 1]
             ELSE IF ~is_continuation(b2) THEN [valid |-> FALSE, next |-> i + 2]
             ELSE IF ~is_continuation(b3) THEN [valid |-> FALSE, next |-> i + 3]
             ELSE [valid |-> TRUE, next |-> i + 4]
        ELSE [valid |-> FALSE, next |-> i + 1]

(* U+FFFD in UTF-8 *)
REPLACEMENT == <<239, 191, 189>>

RECURSIVE from_utf8_lossy_from(_, _)
from_utf8_lossy_from(bytes, i) ==
    IF i > Len(bytes) THEN <<>>
    ELSE LET step == utf8_chunk_step(bytes, i)
         IN  (IF step.valid THEN SubSeq(bytes, i, step.next - 1) ELSE REPLACEMENT)
                 \o from_utf8_lossy_from(bytes, step.next)

from_utf8_lossy(bytes) == from_utf8_lossy_from(bytes, 1)

(* Variant: only the first range of the list is used. *)
selected_bytes_first_range_only(line, ranges) ==
    flat_map_ranges(SubSeq(ranges, 1, IF ranges = <<>> THEN 0 ELSE 1), line)

selected_bytes(line, ranges) == flat_map_ranges(ranges, line)

(* Variant: a strict decode, and nothing when the bytes are not UTF-8. *)
extract_bytes_from_line_strict(line, ranges) ==
    LET bytes == selected_bytes(line, ranges)
        lossy == from_utf8_lossy(bytes)
    IN  Returned(IF lossy = bytes THEN bytes ELSE <<>>)

extract_bytes_from_line(line, ranges) ==
    Returned(from_utf8_lossy(selected_bytes(line, ranges)))

(* str::chars: the code points of a well-formed UTF-8 text *)
RECURSIVE chars(_)
chars(line) ==
    IF line = <<>> THEN <<>>
    ELSE LET x == line[1]
             y == line[2] % 64
             z == line[3] % 64
             w == line[4] % 64
         IN  IF x < 128 THEN <<x>> \o chars(SubSeq(line, 2, Len(line)))
             ELSE IF x < 224
             THEN <<(x % 32) * 64 + y>> \o chars(SubSeq(line, 3, Len(line)))
             ELSE IF x < 240
             THEN <<(x % 16) * 4096 + y * 64 + z>> \o chars(SubSeq(line, 4, Len(line)))
             ELSE <<(x % 8) * 262144 + y * 4096 + z * 64 + w>>
                      \o chars(SubSeq(line, 5, Len(line)))

(* char::encode_utf8 *)
encode_utf8(c) ==
    IF c < 128 THEN <<c>>
    ELSE IF c < 2048 THEN <<192 + (c \div 64), 128 + (c % 64)>>
    ELSE IF c < 65536
    THEN <<224 + (c \div 4096), 128 + ((c \div 64) % 64), 128 + (c % 64)>>
    ELSE <<240 + (c \div 262144), 128 + ((c \div 4096) % 64),
           128 + ((c \div 64) % 64), 128 + (c % 64)>>

(* Iterator<Item = &char>::collect::<String> *)
collect_string(cs) == concat([k \in 1..Len(cs) |-> encode_utf8(cs[k])])

(* Variant: a range reaching beyond the line selects nothing. *)
selected_chars_whole_ranges_only(line, ranges) ==
    flat_map_ranges(SelectSeq(ranges, LAMBDA r : r.end <= Len(chars(line))),
                    chars(line))

selected_chars(line, ranges) == flat_map_ranges(ranges, chars(line))

(* Variant: the characters are indexed directly, and an index beyond the   *)
(* line panics.                                                            *)
extract_chars_from_line_indexing(line, ranges) ==
    IF \E k \in 1..Len(ranges) : ranges[k].end > Len(chars(line))
    THEN Panicked
    ELSE Returned(collect_string(selected_chars(line, ranges)))

(* Variant: every byte of the line is taken for a character. *)
extract_chars_from_line_by_bytes(line, ranges) ==
    Returned(collect_string(flat_map_ranges(ranges, line)))

extract_chars_from_line(line, ranges) ==
    Returned(collect_string(selected_chars(line, ranges)))

-----------------------------------------------------------------------------
(* State machine of one extraction: a position list, then one call of one  *)
(* of the three extract functions on a record or a line.                   *)

Ranges == {r \in [start : 0..MaxEnd, end : 0..MaxEnd] : r.start < r.end}

PositionLists == UNION {[1..n -> Ranges] : n \in 0..MaxRanges}

(* Characters of one, two and three bytes: a, b, U+00E1, U+20AC. *)
LineCharTable ==
    {[cp |-> 97, utf8 |-> <<97>>],
     [cp |-> 98, utf8 |-> <<98>>],
     [cp |-> 225, utf8 |-> <<195, 161>>],
     [cp |-> 8364, utf8 |-> <<226, 130, 172>>]}

CharSeqs == UNION {[1..n -> LineCharTable] : n \in 0..MaxLineChars}

LineOf(cs) == concat([k \in 1..Len(cs) |-> cs[k].utf8])

Lines == {LineOf(cs) : cs \in CharSeqs}

FieldValues == {<<97>>, <<98, 195, 161>>}

Records == UNION {[1..n -> FieldValues] : n \in 0..MaxFields}

ExtractInit ==
    /\ xpc = "ready"
    /\ position_list \in PositionLists
    /\ input = <<>>
    /\ selected = <<>>
    /\ output = Returned(<<>>)
    /\ ParseIdle
    /\ RunIdle
    /\ ToolsIdle

ExtractFields ==
    /\ xpc = "ready"
    /\ \E record \in Records :
           /\ input' = record
           /\ output' = extract_fields_from_record(record, position_list)
           /\ selected' = IF output'.returned THEN output'.value ELSE <<>>
    /\ xpc' = "fields"
    /\ UNCHANGED position_list
    /\ UNCHANGED <<pvars, rvars, toolvars>>

ExtractBytes ==
    /\ xpc = "ready"
    /\ \E line \in Lines :
           /\ input' = line
           /\ output' = extract_bytes_from_line(line, position_list)
           /\ selected' = selected_bytes(line, position_list)
    /\ xpc' = "bytes"
    /\ UNCHANGED position_list
    /\ UNCHANGED <<pvars, rvars, toolvars>>

ExtractChars ==
    /\ xpc = "ready"
    /\ \E line \in Lines :
           /\ input' = line
           /\ output' = extract_chars_from_line(line, position_list)
           /\ selected' = selected_chars(line, position_list)
    /\ xpc' = "chars"
    /\ UNCHANGED position_list
    /\ UNCHANGED <<pvars, rvars, toolvars>>

ExtractNext == ExtractFields \/ ExtractBytes \/ ExtractChars

SpecExtract == ExtractInit /\ [][ExtractNext]_vars

-----------------------------------------------------------------------------
(* The selection rule, stated on its own: of a range, the part that lies   *)
(* within a sequence; of a list, those parts one after the other.          *)

Covered(seq, r) ==
    SubSeq(seq, r.start + 1, IF r.end < Len(seq) THEN r.end ELSE Len(seq))

CoveredByList(seq, ranges) ==
    concat([k \in 1..Len(ranges) |-> Covered(seq, ranges[k])])

(* The characters a line is written with. *)
RECURSIVE CharsOfLine(_)
CharsOfLine(line) ==
    IF line = <<>> THEN <<>>
    ELSE LET c == CHOOSE e \in LineCharTable :
                     /\ Len(e.utf8) <= Len(line)
                     /\ SubSeq(line, 1, Len(e.utf8)) = e.utf8
         IN  <<c>> \o CharsOfLine(SubSeq(line, Len(c.utf8) + 1, Len(line)))

(* C11: extract_fields_from_record returns the in-bounds fields of each    *)
(* range, ascending within the range, ranges in list order, no padding, a  *)
(* field once per covering range.                                          *)
C11_FieldsSelectedInListOrder ==
    xpc = "fields" => output = Returned(CoveredByList(input, position_list))

C11_Witness ==
    /\ xpc = "fields"
    /\ input = <<<<97>>, <<98, 195, 161>>, <<97>>>>
    /\ position_list = <<Range(1, 4), Range(0, 2)>>
    /\ output = Returned(<<<<98, 195, 161>>, <<97>>, <<97>>, <<98, 195, 161>>>>)

(* C12: extract_chars_from_line selects by code point: the output is the   *)
(* characters of the line at the in-bounds indices of each range, whole.   *)
C12_CharsSelectedByCodepoint ==
    xpc = "chars" =>
        LET picked == CoveredByList(CharsOfLine(input), position_list)
        IN  /\ output = Returned(LineOf(picked))
            /\ selected = [k \in 1..Len(picked) |-> picked[k].cp]

C12_Witness ==
    /\ xpc = "chars"
    /\ input = <<195, 161, 226, 130, 172>>
    /\ position_list = <<Range(1, 3), Range(0, 1)>>
    /\ selected = <<8364, 225>>
    /\ output = Returned(<<226, 130, 172, 195, 161>>)

-----------------------------------------------------------------------------
(* Well-formed UTF-8 byte sequences (Unicode, table 3-7), stated on their  *)
(* own: each row gives the set of bytes allowed in each place.             *)

Continuation == 128..191

WellFormedRows ==
    {<<0..127>>,
     <<194..223, Continuation>>,
     <<{224}, 160..191, Continuation>>,
     <<225..236, Continuation, Continuation>>,
     <<{237}, 128..159, Continuation>>,
     <<238..239, Continuation, Continuation>>,
     <<{240}, 144..191, Continuation, Continuation>>,
     <<241..243, Continuation, Continuation, Continuation>>,
     <<{244}, 128..143, Continuation, Continuation>>}

(* The k bytes from place i on begin a sequence of the row. *)
BeginsRow(bytes, i, row, k) ==
    /\ k <= Len(row)
    /\ i + k - 1 <= Len(bytes)
    /\ \A j \in 1..k : bytes[i + j - 1] \in row[j]

WellFormedLengthsAt(bytes, i) ==
    {Len(row) : row \in {r \in WellFormedRows : BeginsRow(bytes, i, r, Len(r))}}

(* The longest beginning of a well-formed sequence found at place i, and a *)
(* single byte when there is none.                                         *)
MaximalSubpartAt(bytes, i) ==
    LET ks == {k \in 1..3 : \E row \in WellFormedRows : BeginsRow(bytes, i, row, k)}
    IN  IF ks = {} THEN 1 ELSE CHOOSE k \in ks : \A m \in ks : m <= k

(* The bytes cut into well-formed sequences and maximal subparts of        *)
(* ill-formed ones.                                                        *)
RECURSIVE Pieces(_, _)
Pieces(bytes, i) ==
    IF i > Len(bytes) THEN <<>>
    ELSE IF WellFormedLengthsAt(bytes, i) # {}
    THEN LET n == CHOOSE n \in WellFormedLengthsAt(bytes, i) : TRUE
         IN  <<[valid |-> TRUE, bytes |-> SubSeq(bytes, i, i + n - 1)]>>
                 \o Pieces(bytes, i + n)
    ELSE LET n == MaximalSubpartAt(bytes, i)
         IN  <<[valid |-> FALSE, bytes |-> SubSeq(bytes, i, i + n - 1)]>>
                 \o Pieces(bytes, i + n)

(* One U+FFFD for every ill-formed piece. *)
OnePerSubpart(pieces) ==
    concat([k \in 1..Len(pieces) |->
                IF pieces[k].valid THEN pieces[k].bytes ELSE REPLACEMENT])

(* One U+FFFD for every maximal run of ill-formed pieces. *)
OnePerRun(pieces) ==
    concat([k \in 1..Len(pieces) |->
                IF pieces[k].valid THEN pieces[k].bytes
                ELSE IF k > 1 /\ ~pieces[k - 1].valid THEN <<>>
                ELSE REPLACEMENT])

(* C13 as claimed: the selected bytes are decoded with every well-formed   *)
(* sequence kept and every maximal run of bytes that is not valid UTF-8    *)
(* replaced by exactly one U+FFFD.                                         *)
C13_OneReplacementPerInvalidRun ==
    xpc = "bytes" =>
        output = Returned(OnePerRun(Pieces(CoveredByList(input, position_list), 1)))

(* C13 amended: every well-formed sequence among the selected bytes is     *)
(* kept, and every maximal subpart of an ill-formed sequence (the longest  *)
(* beginning of a well-formed sequence, else a single byte) is replaced by *)
(* one U+FFFD, so a run of invalid bytes can give several of them.         *)
C13_OneReplacementPerSubpart ==
    xpc = "bytes" =>
        output = Returned(OnePerSubpart(Pieces(CoveredByList(input, position_list), 1)))

C13_Witness ==
    /\ xpc = "bytes"
    /\ input = <<195, 161, 226, 130, 172>>
    /\ position_list = <<Range(0, 2), Range(2, 4)>>
    /\ selected = <<195, 161, 226, 130>>
    /\ output = Returned(<<195, 161, 239, 191, 189>>)

(* C14: the three functions select by one rule that reads only the list    *)
(* and the length L of the record: the elements (fields, bytes, code       *)
(* points) at the indices i of [start, end) with i < L, ascending, range   *)
(* after range.                                                            *)
SelectedIndices(ranges, L) ==
    concat([k \in 1..Len(ranges) |->
                LET last == IF ranges[k].end < L THEN ranges[k].end ELSE L
                IN  [j \in 1..(last - ranges[k].start) |-> ranges[k].start + j - 1]])

ElementsOf(mode, in) ==
    IF mode = "chars"
    THEN [k \in 1..Len(CharsOfLine(in)) |-> CharsOfLine(in)[k].cp]
    ELSE in

C14_OneSelectionRule ==
    xpc # "ready" =>
        LET elements == ElementsOf(xpc, input)
            indices == SelectedIndices(position_list, Len(elements))
        IN  selected = [k \in 1..Len(indices) |-> elements[indices[k] + 1]]

C14_Witness ==
    /\ xpc = "bytes"
    /\ input = <<97, 226, 130, 172>>
    /\ position_list = <<Range(2, 4), Range(0, 3)>>
    /\ SelectedIndices(position_list, 4) = <<2, 3, 0, 1, 2>>
    /\ selected = <<130, 172, 97, 226, 130>>

(* C15: each extract function returns for every record or line and every   *)
(* position list, and returns nothing selected when no index of the list   *)
(* lies within the record.                                                 *)
C15_ExtractionAlwaysReturns ==
    xpc # "ready" =>
        /\ output.returned
        /\ (SelectedIndices(position_list, Len(ElementsOf(xpc, input))) = <<>>
                => output.value = <<>>)

C15_Witness ==
    /\ xpc = "chars"
    /\ input = <<>>
    /\ position_list = <<Range(0, 1)>>
    /\ output = Returned(<<>>)

-----------------------------------------------------------------------------
(* do_run: validate the delimiter, parse the one selection option, then    *)
(* for every file open it and print the selection of each line or record.  *)
(* The environment decides whether an open succeeds, what each read        *)
(* delivers (a line or record, the end of the file, or a failure) and      *)
(* whether a write of the csv writer succeeds.                             *)

(* Option<T>: Some(x) is a sequence of one element, None the empty one. *)
Some(x) == <<x>>

(* The characters a delimiter is drawn from, with their UTF-8 encodings. *)
DelimiterCharTable ==
    {[char |-> "\t", utf8 |-> <<9>>],
     [char |-> ",", utf8 |-> <<44>>],
     [char |-> "U+00E1", utf8 |-> <<195, 161>>]}

Utf8Of(char) == (CHOOSE e \in DelimiterCharTable : e.char = char).utf8

(* String::as_bytes of the delimiter *)
as_bytes(delimiter) == concat([k \in 1..Len(delimiter) |-> Utf8Of(delimiter[k])])

Delimiters == {<<"\t">>, <<>>, <<",", ",">>, <<"U+00E1">>}

(* Position texts of a run: "1", "1-5,1", and two malformed ones. *)
RunTexts == {<<"1">>, <<"1", "-", "5", ",", "1">>, <<"0">>, <<"5", "-", "1">>}

FileNames == {"-", "f"}

FileLists == UNION {[1..n -> FileNames] : n \in 1..MaxFiles}

(* clap's group(required = true, multiple = false): exactly one option. *)
SelectionArgumentSets ==
    {[fields |-> Some(t), bytes |-> <<>>, chars |-> <<>>] : t \in RunTexts}
        \cup {[fields |-> <<>>, bytes |-> Some(t), chars |-> <<>>] : t \in RunTexts}
        \cup {[fields |-> <<>>, bytes |-> <<>>, chars |-> Some(t)] : t \in RunTexts}

CliArguments ==
    {[files |-> f, delimiter |-> d, selection_arguments |-> sel] :
        f \in FileLists, d \in Delimiters, sel \in SelectionArgumentSets}

(* What BufRead::lines yields: lines of valid UTF-8, here "" and "a" "U+00E1". *)
RunLines == {<<>>, <<97, 195, 161>>}

(* What csv_reader.records yields: records of one or two fields. *)
RunRecords == {<<<<97>>>>, <<<<97>>, <<98, 195, 161>>>>}

DelimMessage(delimiter) ==
    <<"--delim \"">> \o delimiter \o <<"\" must be a single byte">>

ReadError == <<"read error">>

WriteError == <<"write error">>

OpenError == "open error"

RunInit ==
    /\ args \in CliArguments
    /\ rpc = "start"
    /\ selection_mode = NoMode
    /\ file_index = 0
    /\ printing = "none"
    /\ ret = None
    /\ stdout = <<>>
    /\ stderr = <<>>
    /\ opened = <<>>
    /\ lines_read = <<>>
    /\ io_error = "none"
    /\ ParseIdle
    /\ ExtractIdle
    /\ ToolsIdle

(* Option::transpose of an Option<Result<..>>: Some(Ok(list)) becomes      *)
(* Ok(Some(list)), Some(Err(e)) becomes Err(e).                            *)
transpose(parsed) == IF parsed.ok THEN Ok(Some(parsed.value)) ELSE parsed

(* Option::map(parse_position).transpose(): None stays None, Some(text)    *)
(* becomes the parse result with its list wrapped in Some.                 *)
map_parse_position_transpose(option) ==
    IF option = <<>> THEN Ok(<<>>) ELSE transpose(parse_position(option[1]))

(* The ? of the three options in the order fields, bytes, chars: the first *)
(* error is returned, else the tuple is built.                             *)
try_each(f, b, c) ==
    IF ~f.ok THEN f
    ELSE IF ~b.ok THEN b
    ELSE IF ~c.ok THEN c
    ELSE Ok(<<f.value, b.value, c.value>>)

(* The tuple of lines 79-92. *)
parsed_position_lists(selection_arguments) ==
    try_each(map_parse_position_transpose(selection_arguments.fields),
             map_parse_position_transpose(selection_arguments.bytes),
             map_parse_position_transpose(selection_arguments.chars))

(* SelectionMode::Fields, ::Bytes, ::Chars *)
SelectionMode(tag, list) == [tag |-> tag, position_list |-> list]

(* A variant of the match that builds Chars for --bytes. *)
selection_mode_of_bytes_as_chars(lists) ==
    IF lists[1] # <<>> THEN SelectionMode("Fields", lists[1][1])
    ELSE IF lists[2] # <<>> THEN SelectionMode("Chars", lists[2][1])
    ELSE IF lists[3] # <<>> THEN SelectionMode("Chars", lists[3][1])
    ELSE SelectionMode("unreachable", <<>>)

(* The match of lines 94-99: the first Some of the tuple decides. *)
selection_mode_of(lists) ==
    IF lists[1] # <<>> THEN SelectionMode("Fields", lists[1][1])
    ELSE IF lists[2] # <<>> THEN SelectionMode("Bytes", lists[2][1])
    ELSE IF lists[3] # <<>> THEN SelectionMode("Chars", lists[3][1])
    ELSE SelectionMode("unreachable", <<>>)

(* A variant that counts the characters of the delimiter, not its bytes. *)
CheckDelimiter_by_chars ==
    /\ rpc = "start"
    /\ IF Len(args.delimiter) # 1
       THEN /\ ret' = Err(DelimMessage(args.delimiter))
            /\ rpc' = "done"
       ELSE /\ rpc' = "parse"
            /\ UNCHANGED ret
    /\ UNCHANGED <<args, selection_mode, file_index, printing, stdout, stderr,
                   opened, lines_read, io_error>>
    /\ UNCHANGED <<pvars, xvars, toolvars>>

(* Lines 66-71: bail unless the delimiter is one byte long. *)
CheckDelimiter ==
    /\ rpc = "start"
    /\ IF Len(as_bytes(args.delimiter)) # 1
       THEN /\ ret' = Err(DelimMessage(args.delimiter))
            /\ rpc' = "done"
       ELSE /\ rpc' = "parse"
            /\ UNCHANGED ret
    /\ UNCHANGED <<args, selection_mode, file_index, printing, stdout, stderr,
                   opened, lines_read, io_error>>
    /\ UNCHANGED <<pvars, xvars, toolvars>>

(* A variant that goes on with an empty list when the text does not parse. *)
ParseSelection_lenient ==
    /\ rpc = "parse"
    /\ \E lists \in {parsed_position_lists(args.selection_arguments)} :
           /\ selection_mode' =
                IF lists.ok THEN selection_mode_of(lists.value)
                ELSE SelectionMode("Bytes", <<>>)
           /\ file_index' = 1
           /\ rpc' = "files"
           /\ UNCHANGED ret
    /\ UNCHANGED <<args, printing, stdout, stderr, opened, lines_read, io_error>>
    /\ UNCHANGED <<pvars, xvars, toolvars>>

(* Lines 79-99: parse the options, return the first error, else build the  *)
(* selection mode and enter the loop over the files.                       *)
ParseSelection ==
    /\ rpc = "parse"
    /\ \E lists \in {parsed_position_lists(args.selection_arguments)} :
           IF ~lists.ok
           THEN /\ ret' = lists
                /\ rpc' = "done"
                /\ UNCHANGED <<selection_mode, file_index>>
           ELSE /\ selection_mode' = selection_mode_of(lists.value)
                /\ file_index' = 1
                /\ rpc' = "files"
                /\ UNCHANGED ret
    /\ UNCHANGED <<args, printing, stdout, stderr, opened, lines_read, io_error>>
    /\ UNCHANGED <<pvars, xvars, toolvars>>

(* A variant that ends the loop at the first file that does not open. *)
OpenFile_stop_at_bad ==
    /\ rpc = "files"
    /\ file_index <= Len(args.files)
    /\ LET filename == args.files[file_index]
       IN  \E opens \in BOOLEAN :
             /\ filename = "-" => opens
             /\ opened' = Append(opened, filename)
             /\ IF opens
                THEN /\ printing' = selection_mode.tag
                     /\ lines_read' = Append(lines_read, <<>>)
                     /\ rpc' = "print"
                     /\ UNCHANGED <<stderr, file_index>>
                ELSE /\ stderr' = Append(stderr, <<filename, ": ", OpenError>>)
                     /\ file_index' = Len(args.files) + 1
                     /\ UNCHANGED <<printing, lines_read, rpc>>
    /\ UNCHANGED <<args, selection_mode, ret, stdout, io_error>>
    /\ UNCHANGED <<pvars, xvars, toolvars>>

(* A variant that returns the error of a failed open. *)
OpenFile_propagating ==
    /\ rpc = "files"
    /\ file_index <= Len(args.files)
    /\ LET filename == args.files[file_index]
       IN  \E opens \in BOOLEAN :
             /\ filename = "-" => opens
             /\ opened' = Append(opened, filename)
             /\ IF opens
                THEN /\ printing' = selection_mode.tag
                     /\ lines_read' = Append(lines_read, <<>>)
                     /\ rpc' = "print"
                     /\ UNCHANGED <<ret, file_index>>
                ELSE /\ ret' = Err(<<filename, ": ", OpenError>>)
                     /\ rpc' = "done"
                     /\ UNCHANGED <<printing, lines_read, file_index>>
    /\ UNCHANGED <<args, selection_mode, stdout, stderr, io_error>>
    /\ UNCHANGED <<pvars, xvars, toolvars>>

(* Lines 101-116 and open_input_file: open the next file; "-" is the       *)
(* standard input and always opens.  A file that does not open is reported *)
(* on stderr and skipped; one that opens goes to the print function of the *)
(* selection mode.                                                         *)
OpenFile ==
    /\ rpc = "files"
    /\ file_index <= Len(args.files)
    /\ LET filename == args.files[file_index]
       IN  \E opens \in BOOLEAN :
             /\ filename = "-" => opens
             /\ opened' = Append(opened, filename)
             /\ IF opens
                THEN /\ printing' = selection_mode.tag
                     /\ lines_read' = Append(lines_read, <<>>)
                     /\ rpc' = "print"
                     /\ UNCHANGED <<stderr, file_index>>
                ELSE /\ stderr' = Append(stderr, <<filename, ": ", OpenError>>)
                     /\ file_index' = file_index + 1
                     /\ UNCHANGED <<printing, lines_read, rpc>>
    /\ UNCHANGED <<args, selection_mode, ret, stdout, io_error>>
    /\ UNCHANGED <<pvars, xvars, toolvars>>

(* The reads of the file at work, with one more line or record. *)
with_read(reads, item) == [reads EXCEPT ![Len(reads)] = Append(@, item)]

(* print_selected_fields, one turn of its loop: the reader yields a record *)
(* (each of a file as long as the first, the reader is not flexible), an   *)
(* error, or the end; the record's selection is written, and a failure of  *)
(* the read or of the write is returned.                                   *)
PrintSelectedFields ==
    /\ rpc = "print"
    /\ printing = "Fields"
    /\ \/ \E record \in RunRecords, written \in BOOLEAN :
             LET current == lines_read[Len(lines_read)]
                 out == extract_fields_from_record(record, selection_mode.position_list)
             IN  /\ Len(current) < MaxLines
                 /\ current # <<>> => Len(record) = Len(current[1])
                 /\ lines_read' = with_read(lines_read, record)
                 /\ IF written
                    THEN /\ stdout' = Append(stdout, out.value)
                         /\ rpc' = IF out.returned THEN "print" ELSE "panicked"
                         /\ UNCHANGED <<ret, io_error>>
                    ELSE /\ ret' = Err(WriteError)
                         /\ io_error' = "write"
                         /\ rpc' = "done"
                         /\ UNCHANGED stdout
                 /\ UNCHANGED <<selection_mode, printing, file_index>>
       \/ /\ ret' = Err(ReadError)
          /\ io_error' = "read"
          /\ rpc' = "done"
          /\ UNCHANGED <<lines_read, stdout, selection_mode, printing, file_index>>
       \/ /\ printing' = "none"
          /\ file_index' = file_index + 1
          /\ rpc' = "files"
          /\ UNCHANGED <<lines_read, stdout, selection_mode, ret, io_error>>
    /\ UNCHANGED <<args, stderr, opened>>
    /\ UNCHANGED <<pvars, xvars, toolvars>>

(* A variant that takes the first range off the list after each line. *)
PrintSelectedBytes_draining ==
    /\ rpc = "print"
    /\ printing = "Bytes"
    /\ \/ \E line \in RunLines :
             LET out == extract_bytes_from_line(line, selection_mode.position_list)
             IN  /\ Len(lines_read[Len(lines_read)]) < MaxLines
                 /\ lines_read' = with_read(lines_read, line)
                 /\ stdout' = Append(stdout, out.value)
                 /\ rpc' = IF out.returned THEN "print" ELSE "panicked"
                 /\ selection_mode' = [selection_mode EXCEPT !.position_list =
                        IF @ = <<>> THEN @ ELSE Tail(@)]
                 /\ UNCHANGED <<ret, io_error, printing, file_index>>
       \/ /\ ret' = Err(ReadError)
          /\ io_error' = "read"
          /\ rpc' = "done"
          /\ UNCHANGED <<lines_read, stdout, selection_mode, printing, file_index>>
       \/ /\ printing' = "none"
          /\ file_index' = file_index + 1
          /\ rpc' = "files"
          /\ UNCHANGED <<lines_read, stdout, selection_mode, ret, io_error>>
    /\ UNCHANGED <<args, stderr, opened>>
    /\ UNCHANGED <<pvars, xvars, toolvars>>

(* print_selected_bytes, one turn of its loop: a line, an error that is   *)
(* returned, or the end of the file.                                       *)
PrintSelectedBytes ==
    /\ rpc = "print"
    /\ printing = "Bytes"
    /\ \/ \E line \in RunLines :
             LET out == extract_bytes_from_line(line, selection_mode.position_list)
             IN  /\ Len(lines_read[Len(lines_read)]) < MaxLines
                 /\ lines_read' = with_read(lines_read, line)
                 /\ stdout' = Append(stdout, out.value)
                 /\ rpc' = IF out.returned THEN "print" ELSE "panicked"
                 /\ UNCHANGED selection_mode
                 /\ UNCHANGED <<ret, io_error, printing, file_index>>
       \/ /\ ret' = Err(ReadError)
          /\ io_error' = "read"
          /\ rpc' = "done"
          /\ UNCHANGED <<lines_read, stdout, selection_mode, printing, file_index>>
       \/ /\ printing' = "none"
          /\ file_index' = file_index + 1
          /\ rpc' = "files"
          /\ UNCHANGED <<lines_read, stdout, selection_mode, ret, io_error>>
    /\ UNCHANGED <<args, stderr, opened>>
    /\ UNCHANGED <<pvars, xvars, toolvars>>

(* A variant that writes no line when nothing is selected. *)
PrintSelectedChars_skip_empty ==
    /\ rpc = "print"
    /\ printing = "Chars"
    /\ \/ \E line \in RunLines :
             LET out == extract_chars_from_line(line, selection_mode.position_list)
             IN  /\ Len(lines_read[Len(lines_read)]) < MaxLines
                 /\ lines_read' = with_read(lines_read, line)
                 /\ stdout' = IF out.value = <<>> THEN stdout ELSE Append(stdout, out.value)
                 /\ rpc' = IF out.returned THEN "print" ELSE "panicked"
                 /\ UNCHANGED selection_mode
                 /\ UNCHANGED <<ret, io_error, printing, file_index>>
       \/ /\ ret' = Err(ReadError)
          /\ io_error' = "read"
          /\ rpc' = "done"
          /\ UNCHANGED <<lines_read, stdout, selection_mode, printing, file_index>>
       \/ /\ printing' = "none"
          /\ file_index' = file_index + 1
          /\ rpc' = "files"
          /\ UNCHANGED <<lines_read, stdout, selection_mode, ret, io_error>>
    /\ UNCHANGED <<args, stderr, opened>>
    /\ UNCHANGED <<pvars, xvars, toolvars>>

(* print_selected_chars, one turn of its loop: a line, an error that is   *)
(* returned, or the end of the file.                                       *)
PrintSelectedChars ==
    /\ rpc = "print"
    /\ printing = "Chars"
    /\ \/ \E line \in RunLines :
             LET out == extract_chars_from_line(line, selection_mode.position_list)
             IN  /\ Len(lines_read[Len(lines_read)]) < MaxLines
                 /\ lines_read' = with_read(lines_read, line)
                 /\ stdout' = Append(stdout, out.value)
                 /\ rpc' = IF out.returned THEN "print" ELSE "panicked"
                 /\ UNCHANGED selection_mode
                 /\ UNCHANGED <<ret, io_error, printing, file_index>>
       \/ /\ ret' = Err(ReadError)
          /\ io_error' = "read"
          /\ rpc' = "done"
          /\ UNCHANGED <<lines_read, stdout, selection_mode, printing, file_index>>
       \/ /\ printing' = "none"
          /\ file_index' = file_index + 1
          /\ rpc' = "files"
          /\ UNCHANGED <<lines_read, stdout, selection_mode, ret, io_error>>
    /\ UNCHANGED <<args, stderr, opened>>
    /\ UNCHANGED <<pvars, xvars, toolvars>>

(* Line 119: every file is done, do_run returns Ok(()). *)
Finish ==
    /\ rpc = "files"
    /\ file_index > Len(args.files)
    /\ ret' = Ok(<<>>)
    /\ rpc' = "done"
    /\ UNCHANGED <<args, selection_mode, file_index, printing, stdout, stderr,
                   opened, lines_read, io_error>>
    /\ UNCHANGED <<pvars, xvars, toolvars>>

RunNext ==
    \/ CheckDelimiter
    \/ ParseSelection
    \/ OpenFile
    \/ PrintSelectedFields
    \/ PrintSelectedBytes
    \/ PrintSelectedChars
    \/ Finish

SpecRun == RunInit /\ [][RunNext]_vars

-----------------------------------------------------------------------------
(* Properties of a run. *)

(* The option the run was given, and its text. *)
SuppliedOption ==
    IF args.selection_arguments.fields # <<>> THEN "Fields"
    ELSE IF args.selection_arguments.bytes # <<>> THEN "Bytes"
    ELSE "Chars"

SuppliedText ==
    IF args.selection_arguments.fields # <<>> THEN args.selection_arguments.fields[1]
    ELSE IF args.selection_arguments.bytes # <<>> THEN args.selection_arguments.bytes[1]
    ELSE args.selection_arguments.chars[1]

(* Every line or record read so far, file after file. *)
AllRead == concat(lines_read)

(* C16: the position list is read-only after parsing: whatever lines and   *)
(* files have been processed, the list in use is the one parse_position    *)
(* returned, and a line or record read twice is written the same twice.    *)
C16_PositionListReadOnly ==
    selection_mode # NoMode =>
        /\ parse_position(SuppliedText).ok
        /\ selection_mode.position_list = parse_position(SuppliedText).value
        /\ \A j, k \in 1..Len(stdout) :
              AllRead[j] = AllRead[k] => stdout[j] = stdout[k]

C16_Witness ==
    /\ rpc = "done"
    /\ ret = Ok(<<>>)
    /\ printing = "none"
    /\ selection_mode = SelectionMode("Bytes", <<Range(0, 5), Range(0, 1)>>)
    /\ lines_read = <<<<<<97, 195, 161>>, <<97, 195, 161>>>>, <<<<97, 195, 161>>>>>>
    /\ stdout = <<<<97, 195, 161, 97>>, <<97, 195, 161, 97>>, <<97, 195, 161, 97>>>>

(* C17: the position text is parsed before any input is opened or read:    *)
(* an open, a read or an output implies the text has parsed; and a run     *)
(* whose text does not parse returns that error with nothing opened, read  *)
(* or written.                                                             *)
C17_ParsedBeforeAnyInput ==
    LET parsed == parse_position(SuppliedText)
    IN  /\ (opened # <<>> \/ lines_read # <<>> \/ stdout # <<>> \/ stderr # <<>>)
              => /\ parsed.ok
                 /\ selection_mode.position_list = parsed.value
        /\ (rpc = "done" /\ Len(as_bytes(args.delimiter)) = 1 /\ ~parsed.ok)
              => /\ ret = Err(parsed.error)
                 /\ opened = <<>>
                 /\ lines_read = <<>>
                 /\ stdout = <<>>
                 /\ stderr = <<>>

C17_Witness ==
    /\ rpc = "done"
    /\ args.selection_arguments.chars = Some(<<"5", "-", "1">>)
    /\ Len(args.files) = 2
    /\ ret = Err(RangeOrderMessage(5, 1))
    /\ opened = <<>>
    /\ stdout = <<>>

(* C18: in Bytes and Chars modes the output is, file after file and in the *)
(* order read, one line per line read: the k-th line written is the        *)
(* extraction of the k-th line read, empty when nothing is selected.       *)
ExpectedLine(tag, line, ranges) ==
    IF tag = "Bytes"
    THEN OnePerSubpart(Pieces(CoveredByList(line, ranges), 1))
    ELSE LineOf(CoveredByList(CharsOfLine(line), ranges))

C18_OneOutputLinePerInputLine ==
    selection_mode.tag \in {"Bytes", "Chars"} =>
        stdout = concat([f \in 1..Len(lines_read) |->
                            [k \in 1..Len(lines_read[f]) |->
                                ExpectedLine(selection_mode.tag, lines_read[f][k],
                                             selection_mode.position_list)]])

C18_Witness ==
    /\ selection_mode = SelectionMode("Chars", <<Range(0, 1)>>)
    /\ lines_read = <<<<<<>>, <<97, 195, 161>>>>, <<<<97, 195, 161>>, <<>>>>>>
    /\ stdout = <<<<>>, <<97>>, <<97>>, <<>>>>

(* C19 as stated: do_run returns an error only when the position text does *)
(* not parse or a read of an input failed.                                 *)
C19_AbortOnlyParseOrRead ==
    (rpc = "done" /\ ~ret.ok) =>
        \/ /\ ~parse_position(SuppliedText).ok
           /\ ret = Err(parse_position(SuppliedText).error)
        \/ /\ io_error = "read"
           /\ ret = Err(ReadError)

(* C19 amended: do_run returns an error only when the delimiter is not one *)
(* byte long, when the position text does not parse, when a read of an     *)
(* input failed, or when a write of a record in Fields mode failed; a file *)
(* that does not open is none of these.                                    *)
C19_AbortCauses ==
    (rpc = "done" /\ ~ret.ok) =>
        \/ /\ Len(as_bytes(args.delimiter)) # 1
           /\ ret = Err(DelimMessage(args.delimiter))
        \/ /\ ~parse_position(SuppliedText).ok
           /\ ret = Err(parse_position(SuppliedText).error)
        \/ /\ io_error = "read"
           /\ ret = Err(ReadError)
        \/ /\ io_error = "write"
           /\ selection_mode.tag = "Fields"
           /\ ret = Err(WriteError)

C19_Witness ==
    /\ rpc = "done"
    /\ args.delimiter = <<",", ",">>
    /\ parse_position(SuppliedText).ok
    /\ ret = Err(<<"--delim \"", ",", ",", "\" must be a single byte">>)
    /\ opened = <<>>

(* C20: once a run is at its files, one selection mode is in effect, the   *)
(* one of the option given with the list parsed from its text, and each    *)
(* file is printed by that mode.                                           *)
C20_OneModeInEffect ==
    (rpc \in {"files", "print"} \/ opened # <<>>) =>
        /\ selection_mode.tag \in {"Fields", "Bytes", "Chars"}
        /\ selection_mode.tag = SuppliedOption
        /\ selection_mode.position_list = parse_position(SuppliedText).value
        /\ printing \in {"none", selection_mode.tag}
        /\ rpc = "print" => printing = selection_mode.tag

C20_Witness ==
    /\ rpc = "print"
    /\ file_index = 2
    /\ printing = "Bytes"
    /\ selection_mode = SelectionMode("Bytes", <<Range(0, 1)>>)
    /\ opened = <<"f", "-">>
    /\ Len(lines_read) = 2
    /\ stdout = <<<<97>>>>

-----------------------------------------------------------------------------
(* uniqr (src/uniqr/src/main.rs): do_run reads the input line by line and  *)
(* writes the first line of each run of lines equal up to trailing         *)
(* whitespace.  A line is a sequence of characters with its terminator.    *)

Whitespace == {" ", "\n"}

(* str::trim_end: the text without its trailing whitespace. *)
RECURSIVE trim_end(_)
trim_end(s) ==
    IF s # <<>> /\ s[Len(s)] \in Whitespace
    THEN trim_end(SubSeq(s, 1, Len(s) - 1))
    ELSE s

(* What read_line yields: terminated lines, and "a" without terminator,    *)
(* which only the last line of a file can be.                              *)
TerminatedLines == {<<"a", "\n">>, <<"a", " ", "\n">>, <<"b", "\n">>, <<"\n">>}

UnterminatedLines == {<<"a">>}

UniqInputs ==
    UNION {{ls \in [1..n -> TerminatedLines \cup UnterminatedLines] :
                \A k \in 1..(n - 1) : ls[k] \in TerminatedLines} :
           n \in 0..MaxUniqLines}

(* {:>4}: right-aligned in four columns, wider when the number is. *)
RECURSIVE pad_left(_, _)
pad_left(text, width) ==
    IF Len(text) >= width THEN text ELSE pad_left(<<" ">> \o text, width)

(* The closure print_info_row: the text it writes. *)
print_info_row(n, s, count) ==
    IF n > 0
    THEN IF count THEN pad_left(to_string(n), 4) \o <<" ">> \o s ELSE s
    ELSE <<>>

UniqInit ==
    /\ uniq_count \in BOOLEAN
    /\ uniq_input \in UniqInputs
    /\ uniq_read = 0
    /\ previous_line = <<>>
    /\ duplicate_count = 0
    /\ uniq_output = <<>>
    /\ uniq_ret = None
    /\ upc = "loop"
    /\ CutrIdle
    /\ ToolsIdleExcept("uniqr")

(* Lines 66-83, one turn of the loop with a line read. *)
UniqReadLine ==
    /\ upc = "loop"
    /\ uniq_read < Len(uniq_input)
    /\ \E current_line \in {uniq_input[uniq_read + 1]} :
          IF trim_end(current_line) # trim_end(previous_line)
          THEN /\ uniq_output' = uniq_output
                        \o print_info_row(duplicate_count, previous_line, uniq_count)
               /\ previous_line' = current_line
               /\ duplicate_count' = 1
          ELSE /\ duplicate_count' = duplicate_count + 1
               /\ UNCHANGED <<uniq_output, previous_line>>
    /\ uniq_read' = uniq_read + 1
    /\ UNCHANGED <<uniq_count, uniq_input, uniq_ret, upc>>
    /\ UNCHANGED rest_of_uniqr

(* Line 67: read_line fails and do_run returns the error. *)
UniqReadFails ==
    /\ upc = "loop"
    /\ uniq_ret' = Err(ReadError)
    /\ upc' = "done"
    /\ UNCHANGED <<uniq_count, uniq_input, uniq_read, previous_line,
                   duplicate_count, uniq_output>>
    /\ UNCHANGED rest_of_uniqr

(* Lines 69-71 and 85-87: the input is at its end, the last run is         *)
(* written and do_run returns Ok(()).                                      *)
UniqFinish ==
    /\ upc = "loop"
    /\ uniq_read = Len(uniq_input)
    /\ uniq_output' = uniq_output
            \o print_info_row(duplicate_count, previous_line, uniq_count)
    /\ uniq_ret' = Ok(<<>>)
    /\ upc' = "done"
    /\ UNCHANGED <<uniq_count, uniq_input, uniq_read, previous_line, duplicate_count>>
    /\ UNCHANGED rest_of_uniqr

UniqNext == UniqReadLine \/ UniqReadFails \/ UniqFinish

SpecUniq == UniqInit /\ [][UniqNext]_vars

(* Properties of uniqr. *)

(* A line without its trailing blanks and terminator. *)
Stripped(line) ==
    LET keep == {k \in 0..Len(line) : \A j \in (k + 1)..Len(line) : line[j] \in {" ", "\n"}}
    IN  SubSeq(line, 1, CHOOSE k \in keep : \A j \in keep : k <= j)

(* Line k begins a maximal run of adjacent equal lines. *)
BeginsRun(lines, k) == k = 1 \/ Stripped(lines[k]) # Stripped(lines[k - 1])

(* The length of the run that line k begins. *)
RunLength(lines, k) ==
    LET ends == {e \in k..Len(lines) : e = Len(lines) \/ BeginsRun(lines, e + 1)}
    IN  (CHOOSE e \in ends : \A f \in ends : e <= f) - k + 1

FourColumns(n) ==
    LET digits == to_string(n)
    IN  [j \in 1..(4 - Len(digits)) |-> " "] \o digits

ExpectedRow(lines, k, count) ==
    IF count THEN FourColumns(RunLength(lines, k)) \o <<" ">> \o lines[k] ELSE lines[k]

ExpectedUniqOutput(lines, count) ==
    concat([k \in 1..Len(lines) |->
                IF BeginsRun(lines, k) THEN ExpectedRow(lines, k, count) ELSE <<>>])

(* C21: when uniqr has read its input to the end, the output is one row    *)
(* per maximal run of adjacent lines equal up to trailing whitespace, in   *)
(* input order: the first line of the run verbatim with its line ending,   *)
(* after the run length in four columns when --count is set; nothing for   *)
(* an empty input.                                                         *)
C21_AdjacentRepeatsCollapsed ==
    (upc = "done" /\ uniq_ret.ok) =>
        uniq_output = ExpectedUniqOutput(uniq_input, uniq_count)

(* C21 holds of every input whose first line is not blank. *)
C21_CollapsedUnlessLeadingBlank ==
    (upc = "done" /\ uniq_ret.ok /\ uniq_input # <<>> /\ Stripped(uniq_input[1]) # <<>>) =>
        /\ uniq_output = ExpectedUniqOutput(uniq_input, uniq_count)
        /\ uniq_read = Len(uniq_input)

-----------------------------------------------------------------------------
(* grepr (src/grepr/src/main.rs): find_lines reads the file handle line by *)
(* line, terminators kept, and collects the lines the pattern matches, or  *)
(* those it does not when invert_match is set.  A pattern is a literal     *)
(* text, matched anywhere in the line, with or without regard to case.     *)

to_lowercase(c) == IF c = "A" THEN "a" ELSE IF c = "B" THEN "b" ELSE c

fold(text, case_insensitive) ==
    IF case_insensitive THEN [k \in 1..Len(text) |-> to_lowercase(text[k])] ELSE text

(* Regex::is_match: the pattern is found somewhere in the line. *)
is_match(pattern, line) ==
    LET needle == fold(pattern.literal, pattern.case_insensitive)
        haystack == fold(line, pattern.case_insensitive)
    IN  \E i \in 0..(Len(haystack) - Len(needle)) :
            SubSeq(haystack, i + 1, i + Len(needle)) = needle

GrepPatterns ==
    [literal : {<<>>, <<"a">>, <<"a", "b">>}, case_insensitive : BOOLEAN]

GrepTerminatedLines == {<<"a", "\n">>, <<"A", "b", "\n">>, <<"b", "\n">>, <<"\n">>}

GrepUnterminatedLines == {<<"B", "a">>}

(* What the file handle yields: lines, then the end or a failed read. *)
GrepInputs ==
    [lines : UNION {{ls \in [1..n -> GrepTerminatedLines \cup GrepUnterminatedLines] :
                        \A k \in 1..(n - 1) : ls[k] \in GrepTerminatedLines} :
                    n \in 0..MaxGrepLines},
     fails : BOOLEAN]

(* The loop of find_lines from the k-th read on, matches collected so far. *)
RECURSIVE find_lines_loop(_, _, _, _, _)
find_lines_loop(reads, k, pattern, invert, matches) ==
    IF k > Len(reads.lines)
    THEN IF reads.fails THEN Err(ReadError) ELSE Ok(matches)
    ELSE find_lines_loop(reads, k + 1, pattern, invert,
            IF is_match(pattern, reads.lines[k]) # invert
            THEN Append(matches, reads.lines[k])
            ELSE matches)

(* A variant that keeps a line when it matches or invert_match is set. *)
find_lines_or(reads, pattern, invert) ==
    IF reads.fails THEN Err(ReadError)
    ELSE Ok(SelectSeq(reads.lines, LAMBDA l : is_match(pattern, l) \/ invert))

find_lines(reads, pattern, invert) == find_lines_loop(reads, 1, pattern, invert, <<>>)

GrepInit ==
    /\ grep_input \in GrepInputs
    /\ grep_pattern \in GrepPatterns
    /\ invert_match \in BOOLEAN
    /\ grep_matches = None
    /\ grep_previous = None
    /\ gpc = "ready"
    /\ CutrIdle
    /\ ToolsIdleExcept("grepr")

(* find_lines is called. *)
FindLines ==
    /\ gpc = "ready"
    /\ grep_matches' = find_lines(grep_input, grep_pattern, invert_match)
    /\ gpc' = "found"
    /\ UNCHANGED <<grep_input, grep_pattern, invert_match, grep_previous>>
    /\ UNCHANGED rest_of_grepr

(* find_lines is called again on the same input with the flag negated. *)
FindLinesInverted ==
    /\ gpc = "found"
    /\ grep_previous' = grep_matches
    /\ invert_match' = ~invert_match
    /\ grep_matches' = find_lines(grep_input, grep_pattern, ~invert_match)
    /\ gpc' = "both"
    /\ UNCHANGED <<grep_input, grep_pattern>>
    /\ UNCHANGED rest_of_grepr

GrepNext == FindLines \/ FindLinesInverted

SpecGrep == GrepInit /\ [][GrepNext]_vars

(* Properties of grepr. *)

(* The lines of the given positions, in input order. *)
RECURSIVE AtPositions(_, _, _)
AtPositions(lines, positions, k) ==
    IF k > Len(lines) THEN <<>>
    ELSE (IF k \in positions THEN <<lines[k]>> ELSE <<>>)
            \o AtPositions(lines, positions, k + 1)

Occurs(pattern, line) ==
    \E i \in 1..(Len(line) + 1) :
        /\ i + Len(pattern.literal) - 1 <= Len(line)
        /\ \A j \in 1..Len(pattern.literal) :
              \/ line[i + j - 1] = pattern.literal[j]
              \/ /\ pattern.case_insensitive
                 /\ to_lowercase(line[i + j - 1]) = to_lowercase(pattern.literal[j])

(* C22: find_lines returns in input order the lines for which (the pattern *)
(* matches) differs from invert_match; the results of the two settings of  *)
(* the flag are disjoint, each in input order, and together hold every     *)
(* line once.                                                              *)
C22_MatchXorInvert ==
    /\ (gpc # "ready" /\ ~grep_input.fails) =>
          grep_matches = Ok(AtPositions(grep_input.lines,
                                {k \in 1..Len(grep_input.lines) :
                                    Occurs(grep_pattern, grep_input.lines[k]) # invert_match},
                                1))
    /\ (gpc = "both" /\ ~grep_input.fails) =>
          \E kept \in SUBSET (1..Len(grep_input.lines)) :
              /\ grep_matches = Ok(AtPositions(grep_input.lines, kept, 1))
              /\ grep_previous =
                    Ok(AtPositions(grep_input.lines, (1..Len(grep_input.lines)) \ kept, 1))
              /\ Len(grep_matches.value) + Len(grep_previous.value) = Len(grep_input.lines)

C22_Witness ==
    /\ gpc = "both"
    /\ grep_input = [lines |-> <<<<"A", "b", "\n">>, <<"b", "\n">>, <<"B", "a">>>>, fails |-> FALSE]
    /\ grep_pattern = [literal |-> <<"a">>, case_insensitive |-> TRUE]
    /\ invert_match
    /\ grep_matches = Ok(<<<<"b", "\n">>>>)
    /\ grep_previous = Ok(<<<<"A", "b", "\n">>, <<"B", "a">>>>)

-----------------------------------------------------------------------------
(* wcr (src/wcr/src/main.rs): get_file_info reads the input line by line,  *)
(* terminators kept, and counts lines, words, bytes and characters.  The   *)
(* input is a sequence of characters, each with the length of its UTF-8    *)
(* encoding.                                                               *)

WcCharTable ==
    {[char |-> "a", len_utf8 |-> 1],
     [char |-> " ", len_utf8 |-> 1],
     [char |-> "\n", len_utf8 |-> 1],
     [char |-> "U+00E1", len_utf8 |-> 2]}

WcChars == {e.char : e \in WcCharTable}

len_utf8(c) == (CHOOSE e \in WcCharTable : e.char = c).len_utf8

is_whitespace(c) == c \in {" ", "\n"}

WcInputs == UNION {[1..n -> WcChars] : n \in 0..MaxWcChars}

(* read_line: the characters from position from + 1 up to and including    *)
(* the next line feed, or up to the end of the input.                      *)
RECURSIVE read_line(_, _)
read_line(text, from) ==
    IF from >= Len(text) THEN <<>>
    ELSE IF text[from + 1] = "\n" THEN <<"\n">>
    ELSE <<text[from + 1]>> \o read_line(text, from + 1)

(* String::len of what was read: the bytes of its encoding. *)
RECURSIVE len_bytes(_)
len_bytes(text) == IF text = <<>> THEN 0 ELSE len_utf8(Head(text)) + len_bytes(Tail(text))

(* split_whitespace().count(): the pieces between whitespace, none empty. *)
RECURSIVE split_whitespace_count(_, _)
split_whitespace_count(text, in_word) ==
    IF text = <<>> THEN 0
    ELSE IF is_whitespace(Head(text)) THEN split_whitespace_count(Tail(text), FALSE)
    ELSE (IF in_word THEN 0 ELSE 1) + split_whitespace_count(Tail(text), TRUE)

(* chars().count() *)
chars_count(text) == Len(text)

WcInit ==
    /\ wc_input \in WcInputs
    /\ wc_read = 0
    /\ line_count = 0
    /\ word_count = 0
    /\ byte_count = 0
    /\ char_count = 0
    /\ wc_ret = None
    /\ wpc = "loop"
    /\ CutrIdle
    /\ ToolsIdleExcept("wcr")

(* A variant that counts the characters of a line as its bytes. *)
WcReadLine_chars_as_bytes ==
    /\ wpc = "loop"
    /\ wc_read < Len(wc_input)
    /\ \E line_buffer \in {read_line(wc_input, wc_read)} :
          /\ byte_count' = byte_count + len_bytes(line_buffer)
          /\ line_count' = line_count + 1
          /\ word_count' = word_count + split_whitespace_count(line_buffer, FALSE)
          /\ char_count' = char_count + len_bytes(line_buffer)
          /\ wc_read' = wc_read + Len(line_buffer)
    /\ UNCHANGED <<wc_input, wc_ret, wpc>>
    /\ UNCHANGED rest_of_wcr

(* Lines 145-162, one turn of the loop with a line read. *)
WcReadLine ==
    /\ wpc = "loop"
    /\ wc_read < Len(wc_input)
    /\ \E line_buffer \in {read_line(wc_input, wc_read)} :
          /\ byte_count' = byte_count + len_bytes(line_buffer)
          /\ line_count' = line_count + 1
          /\ word_count' = word_count + split_whitespace_count(line_buffer, FALSE)
          /\ char_count' = char_count + chars_count(line_buffer)
          /\ wc_read' = wc_read + Len(line_buffer)
    /\ UNCHANGED <<wc_input, wc_ret, wpc>>
    /\ UNCHANGED rest_of_wcr

(* Line 148: read_line fails and get_file_info returns the error. *)
WcReadFails ==
    /\ wpc = "loop"
    /\ wc_ret' = Err(ReadError)
    /\ wpc' = "done"
    /\ UNCHANGED <<wc_input, wc_read, line_count, word_count, byte_count, char_count>>
    /\ UNCHANGED rest_of_wcr

(* Lines 151-153 and 164-169: the input is at its end, the counters are    *)
(* returned.                                                               *)
WcFinish ==
    /\ wpc = "loop"
    /\ wc_read = Len(wc_input)
    /\ wc_ret' = Ok([line_count |-> line_count, word_count |-> word_count,
                     byte_count |-> byte_count, char_count |-> char_count])
    /\ wpc' = "done"
    /\ UNCHANGED <<wc_input, wc_read, line_count, word_count, byte_count, char_count>>
    /\ UNCHANGED rest_of_wcr

WcNext == WcReadLine \/ WcReadFails \/ WcFinish

SpecWc == WcInit /\ [][WcNext]_vars

(* Properties of wcr. *)

Sum(f, n) ==
    LET S[k \in 0..n] == IF k = 0 THEN 0 ELSE S[k - 1] + f[k]
    IN  S[n]

Blank(c) == c = " " \/ c = "\n"

EncodedLength(c) == IF c = "U+00E1" THEN 2 ELSE 1

-----------------------------------------------------------------------------
(* headr (src/headr/src/main.rs): run opens each file in turn, prints a    *)
(* header when there are several files, then the first bytes or the first  *)
(* lines of the file.  A file is a sequence of lines, a line a sequence of *)
(* bytes with its terminator; output is a sequence of writes.              *)

HeadTerminatedLines == {<<97, 10>>, <<195, 161, 10>>}

HeadUnterminatedLines == {<<97>>}

HeadContents ==
    UNION {{ls \in [1..n -> HeadTerminatedLines \cup HeadUnterminatedLines] :
                \A k \in 1..(n - 1) : ls[k] \in HeadTerminatedLines} :
           n \in 0..MaxHeadLines}

(* A file that does not open, or one that opens and has lines. *)
HeadFiles ==
    {[opens |-> FALSE, content |-> <<>>]}
        \cup {[opens |-> TRUE, content |-> c] : c \in HeadContents}

(* The name of the i-th file argument: "f1", "f2", ... *)
FileName(i) == <<102, 48 + i>>

(* --lines with its default 10, or --bytes, which excludes --lines. *)
HeadOptions ==
    {[lines |-> n, bytes |-> <<>>] : n \in {1, 2, 10}}
        \cup {[lines |-> 10, bytes |-> Some(c)] : c \in {1, 3}}

HeadArgs ==
    {[files |-> [i \in 1..n |-> FileName(i)], lines |-> o.lines, bytes |-> o.bytes] :
        n \in 1..MaxHeadFiles, o \in HeadOptions}

HeadInit ==
    /\ head_args \in HeadArgs
    /\ head_fs \in [1..Len(head_args.files) -> HeadFiles]
    /\ head_file_index = 0
    /\ head_lines_read = 0
    /\ head_stdout = <<>>
    /\ head_stderr = <<>>
    /\ head_ret = None
    /\ hpc = "files"
    /\ CutrIdle
    /\ ToolsIdleExcept("headr")

(* Lines 57-60: the header of a file, after a line break unless the file   *)
(* is the first argument; nothing when there is one file.                  *)
header(file_count, index, filename) ==
    IF file_count > 1
    THEN <<[file |-> index + 1, header |-> TRUE,
            text |-> (IF index > 0 THEN <<10>> ELSE <<>>)
                        \o <<61, 61, 62, 32>> \o filename \o <<32, 60, 61, 61, 10>>]>>
    ELSE <<>>

(* bytes().take(n): the first n bytes of the file. *)
take_bytes(content, n) ==
    LET all == concat(content)
    IN  SubSeq(all, 1, IF n < Len(all) THEN n ELSE Len(all))

(* Lines 49-76: the next file is opened.  One that does not open is        *)
(* reported and skipped.  One that opens gets its header; with --bytes     *)
(* its first bytes are read and printed, lossily decoded, or the read      *)
(* fails and run returns the error; else the loop over its lines begins.   *)
HeadOpenFile ==
    /\ hpc = "files"
    /\ head_file_index < Len(head_args.files)
    /\ LET file == head_fs[head_file_index + 1]
           filename == head_args.files[head_file_index + 1]
           head == header(Len(head_args.files), head_file_index, filename)
       IN  IF ~file.opens
           THEN /\ head_stderr' = Append(head_stderr, filename)
                /\ head_file_index' = head_file_index + 1
                /\ UNCHANGED <<head_stdout, head_ret, hpc, head_lines_read>>
           ELSE IF head_args.bytes # <<>>
           THEN \E read_ok \in BOOLEAN :
                  IF read_ok
                  THEN /\ head_stdout' = head_stdout \o head \o
                            <<[file |-> head_file_index + 1, header |-> FALSE,
                               text |-> from_utf8_lossy(
                                            take_bytes(file.content, head_args.bytes[1]))]>>
                       /\ head_file_index' = head_file_index + 1
                       /\ UNCHANGED <<head_stderr, head_ret, hpc, head_lines_read>>
                  ELSE /\ head_stdout' = head_stdout \o head
                       /\ head_ret' = Err(ReadError)
                       /\ hpc' = "done"
                       /\ UNCHANGED <<head_stderr, head_file_index, head_lines_read>>
           ELSE /\ head_stdout' = head_stdout \o head
                /\ head_lines_read' = 0
                /\ hpc' = "lines"
                /\ UNCHANGED <<head_stderr, head_ret, head_file_index>>
    /\ UNCHANGED <<head_args, head_fs>>
    /\ UNCHANGED rest_of_headr

(* A variant that does not empty the line buffer: each print shows the    *)
(* lines read so far.                                                      *)
HeadReadLine_buffer_not_cleared ==
    /\ hpc = "lines"
    /\ head_lines_read < head_args.lines
    /\ head_lines_read < Len(head_fs[head_file_index + 1].content)
    /\ head_stdout' = Append(head_stdout,
            [file |-> head_file_index + 1, header |-> FALSE,
             text |-> concat(SubSeq(head_fs[head_file_index + 1].content, 1, head_lines_read + 1))])
    /\ head_lines_read' = head_lines_read + 1
    /\ UNCHANGED <<head_args, head_fs, head_file_index, head_stderr, head_ret, hpc>>
    /\ UNCHANGED rest_of_headr

(* Lines 83-97, one turn of the loop with a line read: it is printed with *)
(* its line ending.                                                        *)
HeadReadLine ==
    /\ hpc = "lines"
    /\ head_lines_read < head_args.lines
    /\ head_lines_read < Len(head_fs[head_file_index + 1].content)
    /\ head_stdout' = Append(head_stdout,
            [file |-> head_file_index + 1, header |-> FALSE,
             text |-> head_fs[head_file_index + 1].content[head_lines_read + 1]])
    /\ head_lines_read' = head_lines_read + 1
    /\ UNCHANGED <<head_args, head_fs, head_file_index, head_stderr, head_ret, hpc>>
    /\ UNCHANGED rest_of_headr

(* Line 85: read_line fails and run returns the error. *)
HeadReadFails ==
    /\ hpc = "lines"
    /\ head_lines_read < head_args.lines
    /\ head_ret' = Err(ReadError)
    /\ hpc' = "done"
    /\ UNCHANGED <<head_args, head_fs, head_file_index, head_lines_read,
                   head_stdout, head_stderr>>
    /\ UNCHANGED rest_of_headr

(* Lines 83 and 88-90: the requested lines are printed or the file is at   *)
(* its end; the next file follows.                                         *)
HeadEndOfLines ==
    /\ hpc = "lines"
    /\ \/ head_lines_read = head_args.lines
       \/ head_lines_read = Len(head_fs[head_file_index + 1].content)
    /\ head_file_index' = head_file_index + 1
    /\ hpc' = "files"
    /\ UNCHANGED <<head_args, head_fs, head_lines_read, head_stdout, head_stderr, head_ret>>
    /\ UNCHANGED rest_of_headr

(* Line 103: every file is done, run returns Ok(()). *)
HeadFinish ==
    /\ hpc = "files"
    /\ head_file_index = Len(head_args.files)
    /\ head_ret' = Ok(<<>>)
    /\ hpc' = "done"
    /\ UNCHANGED <<head_args, head_fs, head_file_index, head_lines_read,
                   head_stdout, head_stderr>>
    /\ UNCHANGED rest_of_headr

HeadNext ==
    \/ HeadOpenFile
    \/ HeadReadLine
    \/ HeadReadFails
    \/ HeadEndOfLines
    \/ HeadFinish

SpecHead == HeadInit /\ [][HeadNext]_vars

(* Properties of headr. *)

(* The texts written for the i-th file, headers apart, in order. *)
RECURSIVE PrintedOf(_, _)
PrintedOf(writes, i) ==
    IF writes = <<>> THEN <<>>
    ELSE (IF Head(writes).file = i /\ ~Head(writes).header
          THEN <<Head(writes).text>> ELSE <<>>) \o PrintedOf(Tail(writes), i)

IsPrefix(a, b) == Len(a) <= Len(b) /\ a = SubSeq(b, 1, Len(a))

FirstLines(content, n) == SubSeq(content, 1, IF n < Len(content) THEN n ELSE Len(content))

(* C24: in line mode a file that opens has, once run is through with it,   *)
(* exactly its first min(n, number of lines) lines printed, verbatim and   *)
(* in order, and never more than these on the way; a file that does not    *)
(* open has nothing printed; files are printed in argument order.          *)
C24_FirstLinesPrinted ==
    (hpc # "idle" /\ head_args.bytes = <<>>) =>
        /\ \A i \in 1..Len(head_args.files) :
              LET printed == PrintedOf(head_stdout, i)
                  expected == FirstLines(head_fs[i].content, head_args.lines)
              IN  /\ IsPrefix(printed, expected)
                  /\ ~head_fs[i].opens => printed = <<>>
                  /\ i <= head_file_index => printed = expected
        /\ \A j, k \in 1..Len(head_stdout) :
              j < k => head_stdout[j].file <= head_stdout[k].file

C24_Witness ==
    /\ hpc = "done"
    /\ head_ret = Ok(<<>>)
    /\ head_args.lines = 2
    /\ head_fs = <<[opens |-> TRUE, content |-> <<<<195, 161, 10>>, <<97>>>>],
                   [opens |-> TRUE, content |-> <<<<97, 10>>>>]>>
    /\ PrintedOf(head_stdout, 1) = <<<<195, 161, 10>>, <<97>>>>
    /\ PrintedOf(head_stdout, 2) = <<<<97, 10>>>>

(* C29: with several files a header whose text begins with the blank       *)
(* separator line comes only after an earlier header, so the output never  *)
(* begins with a blank line, also when the first files do not open.        *)
C29_BlankOnlyAfterEarlierHeader ==
    (hpc # "idle" /\ Len(head_args.files) > 1) =>
        /\ \A k \in 1..Len(head_stdout) :
              (head_stdout[k].header /\ head_stdout[k].text[1] = 10)
                  => \E j \in 1..(k - 1) : head_stdout[j].header
        /\ head_stdout # <<>> => head_stdout[1].text[1] # 10

(* C29, the part that holds: with several files every file that opens has  *)
(* its header, naming it, written before anything else of the file, and    *)
(* the separator is written exactly when the file is not the first         *)
(* argument.                                                               *)
C29_HeaderBeforeEachOpenedFile ==
    (hpc # "idle" /\ Len(head_args.files) > 1) =>
        /\ \A i \in 1..Len(head_args.files) :
              (head_fs[i].opens /\ (i <= head_file_index \/ (i = head_file_index + 1 /\ hpc # "files")))
                  => \E k \in 1..Len(head_stdout) :
                        /\ head_stdout[k].header
                        /\ head_stdout[k].file = i
                        /\ head_stdout[k].text =
                              (IF i > 1 THEN <<10>> ELSE <<>>)
                                  \o <<61, 61, 62, 32>> \o head_args.files[i] \o <<32, 60, 61, 61, 10>>
                        /\ \A j \in 1..(k - 1) : head_stdout[j].file < i
        /\ \A k \in 1..Len(head_stdout) :
              head_stdout[k].header => head_fs[head_stdout[k].file].opens

-----------------------------------------------------------------------------
(* Further properties of cutr. *)

(* C25: a file that does not open is reported, it alone, and skipped: the  *)
(* files are opened in argument order, each either reported or read, and   *)
(* a run in which only opens failed ends with every file tried and         *)
(* returns Ok.                                                             *)
C25_BadFilesSkipped ==
    rpc # "idle" =>
        /\ opened = SubSeq(args.files, 1, Len(opened))
        /\ Len(stderr) + Len(lines_read) = Len(opened)
        /\ \A k \in 1..Len(stderr) :
              /\ stderr[k][1] # "-"
              /\ \E i \in 1..Len(opened) : stderr[k] = <<opened[i], ": ", "open error">>
        /\ (rpc = "done" /\ stderr # <<>> /\ io_error = "none")
              => (ret = Ok(<<>>) /\ opened = args.files)

C25_Witness ==
    /\ rpc = "done"
    /\ ret = Ok(<<>>)
    /\ args.files = <<"f", "-">>
    /\ opened = <<"f", "-">>
    /\ stderr = <<<<"f", ": ", "open error">>>>
    /\ lines_read = <<<<<<97, 195, 161>>>>>>
    /\ stdout = <<<<97>>>>

(* The number of bytes of the encoding of a delimiter. *)
EncodingLength(delimiter) ==
    Sum([k \in 1..Len(delimiter) |-> IF delimiter[k] = "U+00E1" THEN 2 ELSE 1],
        Len(delimiter))

(* C26: a delimiter whose encoding is not one byte long makes do_run       *)
(* return the error --delim "<delimiter>" must be a single byte, whatever  *)
(* the selection mode and whether or not the position text is well         *)
(* formed, with no selection mode built and no file opened.                *)
C26_DelimiterMustBeOneByte ==
    (rpc # "idle" /\ EncodingLength(args.delimiter) # 1) =>
        /\ rpc \in {"start", "done"}
        /\ selection_mode = NoMode
        /\ opened = <<>>
        /\ stdout = <<>>
        /\ rpc = "done" =>
              ret = Err(<<"--delim \"">> \o args.delimiter \o <<"\" must be a single byte">>)

C26_Witness ==
    /\ rpc = "done"
    /\ args.delimiter = <<"U+00E1">>
    /\ args.selection_arguments.chars = Some(<<"0">>)
    /\ ret = Err(<<"--delim \"", "U+00E1", "\" must be a single byte">>)
    /\ opened = <<>>

(* C27: on a line of ASCII characters extract_bytes_from_line and          *)
(* extract_chars_from_line return the same text for every position list,  *)
(* and it holds no replacement character.                                  *)
C27_BytesAndCharsAgreeOnAscii ==
    (xpc \in {"bytes", "chars"} /\ \A k \in 1..Len(input) : input[k] < 128) =>
        /\ output = extract_bytes_from_line(input, position_list)
        /\ output = extract_chars_from_line(input, position_list)
        /\ output.returned
        /\ \A k \in 1..Len(output.value) : output.value[k] < 128

C27_Witness ==
    /\ xpc = "bytes"
    /\ input = <<97, 98>>
    /\ position_list = <<Range(1, 2), Range(0, 4)>>
    /\ output = Returned(<<98, 97, 98>>)
    /\ extract_chars_from_line(input, position_list) = Returned(<<98, 97, 98>>)

-----------------------------------------------------------------------------
(* commr (src/commr/src/main.rs): do_run opens two files and merges their  *)
(* lines: a line of both files goes to column 3, a line of file 1 only to  *)
(* column 1, a line of file 2 only to column 2.  A line is a sequence of   *)
(* bytes, here of the letters A (65), a (97) and b (98).                   *)

CommLines == {<<65>>, <<97>>, <<97, 98>>}

(* What lines().map_while(Result::ok) yields of a file: its lines up to    *)
(* the end or to the first read that fails.                                *)
CommFileLines == UNION {[1..n -> CommLines] : n \in 0..MaxCommLines}

CommArgs ==
    [file1 : {"-", "f"}, file2 : {"-", "g"},
     show_col1 : BOOLEAN, show_col2 : BOOLEAN, show_col3 : BOOLEAN,
     ignore_case : BOOLEAN, delimiter : {<<9>>}]

(* String::to_lowercase *)
to_lowercase_bytes(line) == [k \in 1..Len(line) |-> IF line[k] = 65 THEN 97 ELSE line[k]]

(* The closure apply_case *)
apply_case(line, ignore_case) == IF ignore_case THEN to_lowercase_bytes(line) ELSE line

(* Ord::cmp of two strings: the order of their bytes, a prefix first. *)
RECURSIVE cmp(_, _)
cmp(a, b) ==
    IF a = <<>> /\ b = <<>> THEN "Equal"
    ELSE IF a = <<>> THEN "Less"
    ELSE IF b = <<>> THEN "Greater"
    ELSE IF Head(a) < Head(b) THEN "Less"
    ELSE IF Head(a) > Head(b) THEN "Greater"
    ELSE cmp(Tail(a), Tail(b))

(* [..].join(delimiter) *)
RECURSIVE join(_, _)
join(values, delimiter) ==
    IF values = <<>> THEN <<>>
    ELSE IF Len(values) = 1 THEN values[1]
    ELSE values[1] \o delimiter \o join(Tail(values), delimiter)

(* The closure print_column: the rows it writes, one or none. *)
print_column(column, text, a) ==
    LET output_column_values ==
            IF column = 1 THEN (IF a.show_col1 THEN <<text>> ELSE <<>>)
            ELSE IF column = 2
            THEN (IF a.show_col2
                  THEN (IF a.show_col1 THEN <<<<>>>> ELSE <<>>) \o <<text>>
                  ELSE <<>>)
            ELSE (IF a.show_col3
                  THEN (IF a.show_col1 THEN <<<<>>>> ELSE <<>>)
                          \o (IF a.show_col2 THEN <<<<>>>> ELSE <<>>) \o <<text>>
                  ELSE <<>>)
    IN  IF output_column_values # <<>>
        THEN <<[column |-> column, line |-> text,
                text |-> join(output_column_values, a.delimiter)]>>
        ELSE <<>>

(* Iterator::next of lines1 or lines2 after n lines were taken. *)
next(lines, n, ignore_case) ==
    IF n < Len(lines) THEN Some(apply_case(lines[n + 1], ignore_case)) ELSE <<>>

CommInit ==
    /\ comm_args \in CommArgs
    /\ comm_files \in [1..2 -> CommFileLines]
    /\ comm_taken = <<0, 0>>
    /\ line1 = <<>>
    /\ line2 = <<>>
    /\ comm_stdout = <<>>
    /\ comm_ret = None
    /\ cpc = "start"
    /\ CutrIdle
    /\ ToolsIdleExcept("commr")

(* Lines 66-134: two names "-" are refused; the two files are opened, and  *)
(* a file that does not open ends the run with its error ("-" always       *)
(* opens); the first line of each file is taken.                           *)
CommStart ==
    /\ cpc = "start"
    /\ IF comm_args.file1 = "-" /\ comm_args.file2 = "-"
       THEN /\ comm_ret' = Err(<<"Both input files cannot be STDIN (\"-\")">>)
            /\ cpc' = "done"
            /\ UNCHANGED <<line1, line2, comm_taken>>
       ELSE \E opens1, opens2 \in BOOLEAN :
              /\ comm_args.file1 = "-" => opens1
              /\ comm_args.file2 = "-" => opens2
              /\ IF ~opens1 \/ ~opens2
                 THEN /\ comm_ret' =
                            Err(<<IF ~opens1 THEN comm_args.file1 ELSE comm_args.file2,
                                  ": ", OpenError>>)
                      /\ cpc' = "done"
                      /\ UNCHANGED <<line1, line2, comm_taken>>
                 ELSE /\ line1' = next(comm_files[1], 0, comm_args.ignore_case)
                      /\ line2' = next(comm_files[2], 0, comm_args.ignore_case)
                      /\ comm_taken' = <<Len(line1'), Len(line2')>>
                      /\ cpc' = "loop"
                      /\ UNCHANGED comm_ret
    /\ UNCHANGED <<comm_args, comm_files, comm_stdout>>
    /\ UNCHANGED rest_of_commr

(* A variant of the match that takes the next line of file 1 only when    *)
(* the two lines are equal.                                                *)
merge_step_equal_advances_one(l1, l2) ==
    IF l1 # <<>> /\ l2 # <<>>
    THEN IF cmp(l1[1], l2[1]) = "Equal"
         THEN [column |-> 3, text |-> l1[1], advance1 |-> TRUE, advance2 |-> FALSE]
         ELSE IF cmp(l1[1], l2[1]) = "Less"
         THEN [column |-> 1, text |-> l1[1], advance1 |-> TRUE, advance2 |-> FALSE]
         ELSE [column |-> 2, text |-> l2[1], advance1 |-> FALSE, advance2 |-> TRUE]
    ELSE IF l1 # <<>>
    THEN [column |-> 1, text |-> l1[1], advance1 |-> TRUE, advance2 |-> FALSE]
    ELSE [column |-> 2, text |-> l2[1], advance1 |-> FALSE, advance2 |-> TRUE]

(* The match of lines 138-187: the column and the line to print, and the   *)
(* iterators to advance.                                                   *)
merge_step(l1, l2) ==
    IF l1 # <<>> /\ l2 # <<>>
    THEN IF cmp(l1[1], l2[1]) = "Equal"
         THEN [column |-> 3, text |-> l1[1], advance1 |-> TRUE, advance2 |-> TRUE]
         ELSE IF cmp(l1[1], l2[1]) = "Less"
         THEN [column |-> 1, text |-> l1[1], advance1 |-> TRUE, advance2 |-> FALSE]
         ELSE [column |-> 2, text |-> l2[1], advance1 |-> FALSE, advance2 |-> TRUE]
    ELSE IF l1 # <<>>
    THEN [column |-> 1, text |-> l1[1], advance1 |-> TRUE, advance2 |-> FALSE]
    ELSE [column |-> 2, text |-> l2[1], advance1 |-> FALSE, advance2 |-> TRUE]

(* Lines 136-188, one turn of the while loop. *)
CommStep ==
    /\ cpc = "loop"
    /\ line1 # <<>> \/ line2 # <<>>
    /\ \E step \in {merge_step(line1, line2)} :
          /\ comm_stdout' = comm_stdout \o print_column(step.column, step.text, comm_args)
          /\ line1' = IF step.advance1
                      THEN next(comm_files[1], comm_taken[1], comm_args.ignore_case)
                      ELSE line1
          /\ line2' = IF step.advance2
                      THEN next(comm_files[2], comm_taken[2], comm_args.ignore_case)
                      ELSE line2
          /\ comm_taken' = <<comm_taken[1] + (IF step.advance1 THEN Len(line1') ELSE 0),
                             comm_taken[2] + (IF step.advance2 THEN Len(line2') ELSE 0)>>
    /\ UNCHANGED <<comm_args, comm_files, comm_ret, cpc>>
    /\ UNCHANGED rest_of_commr

(* Lines 136 and 190: both lines are None, do_run returns Ok(()). *)
CommFinish ==
    /\ cpc = "loop"
    /\ line1 = <<>>
    /\ line2 = <<>>
    /\ comm_ret' = Ok(<<>>)
    /\ cpc' = "done"
    /\ UNCHANGED <<comm_args, comm_files, comm_taken, line1, line2, comm_stdout>>
    /\ UNCHANGED rest_of_commr

CommNext == CommStart \/ CommStep \/ CommFinish

(* The program is one thread that takes its next step whenever it has one. *)
SpecComm == CommInit /\ [][CommNext]_vars /\ WF_vars(CommNext)

(* Properties of commr. *)

Lowered(line, ignore_case) ==
    IF ignore_case THEN [k \in 1..Len(line) |-> IF line[k] = 65 THEN 97 ELSE line[k]]
    ELSE line

LoweredLines(lines, ignore_case) == [k \in 1..Len(lines) |-> Lowered(lines[k], ignore_case)]

(* a precedes b in the order of strings. *)
Precedes(a, b) ==
    \E k \in 0..Len(a) :
        /\ k <= Len(b)
        /\ SubSeq(a, 1, k) = SubSeq(b, 1, k)
        /\ \/ (k = Len(a) /\ k < Len(b))
           \/ (k < Len(a) /\ k < Len(b) /\ a[k + 1] < b[k + 1])

(* The merge as stated: the common line in column 3 and both files         *)
(* advance; else the smaller line in its own column and its file           *)
(* advances; the file left over is drained.                                *)
RECURSIVE Merged(_, _)
Merged(a, b) ==
    IF a = <<>> /\ b = <<>> THEN <<>>
    ELSE IF b = <<>> THEN <<[column |-> 1, line |-> Head(a)]>> \o Merged(Tail(a), b)
    ELSE IF a = <<>> THEN <<[column |-> 2, line |-> Head(b)]>> \o Merged(a, Tail(b))
    ELSE IF Head(a) = Head(b)
    THEN <<[column |-> 3, line |-> Head(a)]>> \o Merged(Tail(a), Tail(b))
    ELSE IF Precedes(Head(a), Head(b))
    THEN <<[column |-> 1, line |-> Head(a)]>> \o Merged(Tail(a), b)
    ELSE <<[column |-> 2, line |-> Head(b)]>> \o Merged(a, Tail(b))

RowsOf(rows, columns) == SelectSeq(rows, LAMBDA r : r.column \in columns)

ShownColumns ==
    (IF comm_args.show_col1 THEN {1} ELSE {})
        \cup (IF comm_args.show_col2 THEN {2} ELSE {})
        \cup (IF comm_args.show_col3 THEN {3} ELSE {})

(* C28, its safety part: the lines taken of each file never exceed its     *)
(* lines; the rows written are those of the merge as stated, for the lines *)
(* passed so far and in the columns shown; when the loop has ended every   *)
(* line of both files was taken, and with all columns shown the rows of    *)
(* columns 1 and 3 are the lines of file 1 in order, those of columns 2    *)
(* and 3 the lines of file 2 in order.                                     *)
C28_MergeConsumesEachLineOnce ==
    cpc \in {"loop", "done"} /\ (cpc = "done" => comm_ret.ok) =>
        LET file1 == LoweredLines(comm_files[1], comm_args.ignore_case)
            file2 == LoweredLines(comm_files[2], comm_args.ignore_case)
            rows == [k \in 1..Len(comm_stdout) |->
                        [column |-> comm_stdout[k].column, line |-> comm_stdout[k].line]]
            merged == Merged(file1, file2)
        IN  /\ comm_taken[1] <= Len(file1)
            /\ comm_taken[2] <= Len(file2)
            /\ IsPrefix(rows, RowsOf(merged, ShownColumns))
            /\ cpc = "done" =>
                  /\ comm_taken = <<Len(file1), Len(file2)>>
                  /\ rows = RowsOf(merged, ShownColumns)
                  /\ ShownColumns = {1, 2, 3} =>
                        /\ [k \in 1..Len(RowsOf(rows, {1, 3})) |-> RowsOf(rows, {1, 3})[k].line] = file1
                        /\ [k \in 1..Len(RowsOf(rows, {2, 3})) |-> RowsOf(rows, {2, 3})[k].line] = file2
                        /\ Len(RowsOf(rows, {1})) + Len(RowsOf(rows, {3})) = Len(file1)
                        /\ Len(RowsOf(rows, {2})) + Len(RowsOf(rows, {3})) = Len(file2)

====
